---- MODULE Spec2Model ----
(***************************************************************************)
(* Server-authoritative state machine of the sabotage Connect-4 server     *)
(* (src/unnamed/part_002, lines 1-613): the registry `games`, the          *)
(* socket handlers create_game, join_game, select_sabotage, make_move,     *)
(* request_rematch, leave_game and disconnect, and the evaluator           *)
(* checkWin / checkDraw.                                                   *)
(*                                                                         *)
(* Encoding of the TypeScript values:                                      *)
(*   null / undefined          the string "null" (NULL)                    *)
(*   SabotageSpot {row, col}   the pair <<row, col>>; null is <<>> (NoSpot)*)
(*   board[r][c]               a function 0..ROWS-1 -> 0..COLS-1 -> Player *)
(*   players[socketId]         a function on Sockets, NULL when absent     *)
(*   games                     a function whose DOMAIN is the live ids     *)
(*   sent                      the messages the last handler emitted, in   *)
(*                             order; the payload of a game_update is the  *)
(*                             session object itself, games'[gameId]       *)
(*   connected                 the sockets whose connection is open.  The  *)
(*                             connection handler (line 101) registers the *)
(*                             handlers and changes nothing else, so the   *)
(*                             model starts with its clients connected; a  *)
(*                             socket that disconnects never comes back (a *)
(*                             client that reconnects gets a new id)       *)
(***************************************************************************)
EXTENDS Integers, Sequences, FiniteSets, TLC

VARIABLES games, rooms, sent, connected

vars == <<games, rooms, sent, connected>>

ROWS == 6
COLS == 7

NULL == "null"
NoSpot == <<>>

Colors == {"red", "yellow"}
Sockets == {"s1", "s2", "s3"}
GameIds == {"g1"}
UnknownId == "gx"
\* `games` is a plain object: games[id] is truthy for an id that names a member
\* of Object.prototype ("constructor", "__proto__", "toString", ...) although
\* no session has that id.  Identifiers of sessions are 8 hex digits.
ProtoId == "constructor"

\* Bound on the pieces placed in one match of the specification Spec.
MaxPieces == 7
\* Number of moves of OpeningScript replayed to build the initial state of SpecLate.
LateMoves == 37

RowIdx == 0 .. (ROWS - 1)
ColIdx == 0 .. (COLS - 1)

Min(a, b) == IF a < b THEN a ELSE b

Opp(p) == IF p = "red" THEN "yellow" ELSE "red"

SelectPhase(p) == IF p = "red" THEN "sabotage_select_red" ELSE "sabotage_select_yellow"

createEmptyBoard == [r \in RowIdx |-> [c \in ColIdx |-> NULL]]

(***************************************************************************)
(* checkWin: four scans with a running count, each with the loop bounds    *)
(* of its own for-statement.                                               *)
(***************************************************************************)
RECURSIVE ScanRun(_, _, _, _, _, _, _)
ScanRun(board, player, i, j, di, dj, count) ==
    IF i < 0 \/ i >= ROWS \/ j < 0 \/ j >= COLS
    THEN FALSE
    ELSE LET n == IF board[i][j] = player THEN count + 1 ELSE 0
         IN  IF n >= 4 THEN TRUE
             ELSE ScanRun(board, player, i + di, j + dj, di, dj, n)

checkWin(board, player, r, c) ==
    IF player = NULL THEN FALSE
    ELSE \/ ScanRun(board, player, r, 0, 0, 1, 0)
         \/ ScanRun(board, player, 0, c, 1, 0, 0)
         \/ ScanRun(board, player, r - Min(r, c), c - Min(r, c), 1, 1, 0)
         \/ ScanRun(board, player, r + Min(ROWS - 1 - r, c),
                    c - Min(ROWS - 1 - r, c), -1, 1, 0)

\* Faulty variant of checkDraw: the row below the top one is tested.
checkDraw_SecondRow(board) == \A c \in ColIdx : board[1][c] # NULL

\* Faulty variant of checkDraw: one piece in the top row is enough.
checkDraw_AnyTopCell(board) == \E c \in ColIdx : board[0][c] # NULL

checkDraw(board) == \A c \in ColIdx : board[0][c] # NULL

(***************************************************************************)
(* Messages.  `to` is the set of sockets the emit reaches: the sender for  *)
(* socket.emit, the members of the room for io.to(gameId).emit.            *)
(***************************************************************************)
Msg(to, ev, g) == [to |-> to, event |-> ev, gameId |-> g]

\* emit('game_update', game): the session object as it is when the handler emits.
Update(to, g, game) ==
    [to |-> to, event |-> "game_update", gameId |-> g, game |-> game]

\* An error notification carries a text only, and goes to the offending socket.
Err(s, ev) == Msg({s}, ev, NULL)

Room(g) == rooms[g]

\* A handler that reads a field of game.playerSockets or of game.players when
\* `game` is a member of Object.prototype: TypeError before any emit or write.
\* Nothing catches it (no try/catch, no uncaughtException handler), so it
\* leaves the listener and the Node process terminates: the registry, which
\* is held in memory only (line 41), and every connection are lost, and no
\* later event is handled.  The terminated server is the state with no
\* session, no room member and no connected socket, which no action leaves.
Throws ==
    /\ sent' = << >>
    /\ games' = << >>
    /\ rooms' = [h \in DOMAIN rooms |-> {}]
    /\ connected' = {}

NewGame(s) ==
    [ board |-> createEmptyBoard,
      players |-> [x \in Sockets |-> IF x = s THEN "red" ELSE NULL],
      playerSockets |-> [red |-> s, yellow |-> NULL],
      currentPlayer |-> NULL,
      winner |-> NULL,
      isDraw |-> FALSE,
      gamePhase |-> "waiting_for_opponent",
      redSabotage |-> NoSpot,
      yellowSabotage |-> NoSpot,
      overlapJustTriggered |-> NULL,
      sabotageTriggeredBy |-> NULL,
      rematchRequested |-> [red |-> FALSE, yellow |-> FALSE],
      pendingReselect |-> [red |-> FALSE, yellow |-> FALSE] ]

Init ==
    /\ games = << >>
    /\ rooms = [g \in GameIds |-> {}]
    /\ sent = << >>
    /\ connected = Sockets

(***************************************************************************)
(* create_game.  generateGameId draws 4 random bytes and the handler       *)
(* assigns games[gameId] without looking the identifier up: an identifier  *)
(* drawn again replaces the session that has it, and the creator joins     *)
(* whoever is still in the room of that name.                              *)
(***************************************************************************)
CreateGame(s, g) ==
    /\ UNCHANGED connected
    /\ games' = [h \in DOMAIN games \cup {g} |-> IF h = g THEN NewGame(s) ELSE games[h]]
    /\ rooms' = [rooms EXCEPT ![g] = rooms[g] \cup {s}]
    /\ sent' = << Msg({s}, "game_created", g), Update({s}, g, games'[g]) >>

(***************************************************************************)
(* join_game                                                               *)
(***************************************************************************)

\* Faulty variant of JoinedGame: currentPlayer is not set.
JoinedGame_NoTurn(game, s) ==
    [game EXCEPT !.players[s] = "yellow",
                 !.playerSockets.yellow = s,
                 !.gamePhase = "init_select_red"]

\* Faulty variant of JoinedGame: the joiner replaces the creator as red.
JoinedGame_TakesRed(game, s) ==
    [game EXCEPT !.players[s] = "red",
                 !.playerSockets.yellow = s,
                 !.gamePhase = "init_select_red",
                 !.currentPlayer = "red"]

JoinedGame(game, s) ==
    [game EXCEPT !.players[s] = "yellow",
                 !.playerSockets.yellow = s,
                 !.gamePhase = "init_select_red",
                 !.currentPlayer = "red"]

JoinGame(s, g) ==
    IF g = ProtoId
    THEN Throws
    ELSE /\ UNCHANGED connected
         /\ IF g \notin DOMAIN games
            THEN /\ sent' = << Err(s, "join_error") >>
                 /\ UNCHANGED <<games, rooms>>
            ELSE IF games[g].playerSockets.yellow # NULL
            THEN /\ sent' = << Err(s, "join_error") >>
                 /\ UNCHANGED <<games, rooms>>
            ELSE IF games[g].playerSockets.red = s
            THEN /\ sent' = << >>
                 /\ UNCHANGED <<games, rooms>>
            ELSE /\ games' = [games EXCEPT ![g] = JoinedGame(games[g], s)]
                 /\ rooms' = [rooms EXCEPT ![g] = rooms[g] \cup {s}]
                 /\ sent' = << Msg({s}, "game_joined", g),
                               Update(rooms[g] \cup {s}, g, games'[g]) >>

(***************************************************************************)
(* select_sabotage                                                         *)
(***************************************************************************)
canSelect(game, playerColor) ==
    LET correctTurn == game.currentPlayer = playerColor
    IN  IF (game.gamePhase = "init_select_red" \/ game.gamePhase = "sabotage_select_red")
           /\ playerColor = "red" /\ correctTurn
        THEN TRUE
        ELSE IF (game.gamePhase = "init_select_yellow" \/ game.gamePhase = "sabotage_select_yellow")
                /\ playerColor = "yellow" /\ correctTurn
        THEN TRUE
        ELSE IF game.gamePhase = "playing" /\ correctTurn
        THEN IF playerColor = "red" /\ game.pendingReselect.red THEN TRUE
             ELSE IF playerColor = "yellow" /\ game.pendingReselect.yellow THEN TRUE
             ELSE FALSE
        ELSE FALSE

\* Faulty variant of ValidCoords: the upper limits are off by one.
ValidCoords_OffByOne(row, col) == ~(row < 0 \/ row > ROWS \/ col < 0 \/ col > COLS)

ValidCoords(row, col) == ~(row < 0 \/ row >= ROWS \/ col < 0 \/ col >= COLS)

\* Faulty variant of ReselectTransition: after an overlap the first selection
\* already returns to play.
ReselectTransition_OverlapToPlaying(game, selectingPlayer, cause) ==
    [game EXCEPT !.currentPlayer = IF cause = selectingPlayer
                                   THEN Opp(selectingPlayer)
                                   ELSE selectingPlayer,
                 !.gamePhase = "playing",
                 !.overlapJustTriggered = NULL,
                 !.sabotageTriggeredBy = NULL]

\* Lines 266-283 and 284-301: a reselection by selectingPlayer, `cause` being
\* sabotageTriggeredBy as read before the transition.
ReselectTransition(game, selectingPlayer, cause) ==
    LET opponentPlayer == Opp(selectingPlayer)
    IN  IF game.overlapJustTriggered = selectingPlayer
        THEN [game EXCEPT !.gamePhase = SelectPhase(opponentPlayer),
                          !.currentPlayer = opponentPlayer]
        ELSE [game EXCEPT !.currentPlayer = IF cause = selectingPlayer
                                            THEN opponentPlayer
                                            ELSE selectingPlayer,
                          !.gamePhase = "playing",
                          !.overlapJustTriggered = NULL,
                          !.sabotageTriggeredBy = NULL]

\* Faulty variant of SelectedGame: a delayed reselection leaves the pendingReselect flag set.
SelectedGame_KeepsFlag(game, playerColor, row, col) ==
    LET isDelayedReselect == game.gamePhase = "playing" /\ canSelect(game, playerColor)
        spotSet == IF playerColor = "red"
                   THEN [game EXCEPT !.redSabotage = <<row, col>>]
                   ELSE [game EXCEPT !.yellowSabotage = <<row, col>>]
        currentPhase == game.gamePhase
        cause == game.sabotageTriggeredBy
        flagCleared == spotSet
    IN  IF currentPhase = "init_select_red"
        THEN [flagCleared EXCEPT !.gamePhase = "init_select_yellow",
                                 !.currentPlayer = "yellow",
                                 !.sabotageTriggeredBy = NULL]
        ELSE IF currentPhase = "init_select_yellow"
        THEN [flagCleared EXCEPT !.gamePhase = "playing",
                                 !.currentPlayer = "red",
                                 !.sabotageTriggeredBy = NULL]
        ELSE IF currentPhase = "sabotage_select_red"
                \/ (isDelayedReselect /\ playerColor = "red")
        THEN ReselectTransition(flagCleared, "red", cause)
        ELSE IF currentPhase = "sabotage_select_yellow"
                \/ (isDelayedReselect /\ playerColor = "yellow")
        THEN ReselectTransition(flagCleared, "yellow", cause)
        ELSE flagCleared

\* Faulty variant of SelectedGame: the cell becomes the spot of both colors.
SelectedGame_SetsBothSpots(game, playerColor, row, col) ==
    LET isDelayedReselect == game.gamePhase = "playing" /\ canSelect(game, playerColor)
        spotSet == [game EXCEPT !.redSabotage = <<row, col>>,
                                !.yellowSabotage = <<row, col>>]
        currentPhase == game.gamePhase
        cause == game.sabotageTriggeredBy
        flagCleared == IF isDelayedReselect
                       THEN [spotSet EXCEPT !.pendingReselect[playerColor] = FALSE]
                       ELSE spotSet
    IN  IF currentPhase = "init_select_red"
        THEN [flagCleared EXCEPT !.gamePhase = "init_select_yellow",
                                 !.currentPlayer = "yellow",
                                 !.sabotageTriggeredBy = NULL]
        ELSE IF currentPhase = "init_select_yellow"
        THEN [flagCleared EXCEPT !.gamePhase = "playing",
                                 !.currentPlayer = "red",
                                 !.sabotageTriggeredBy = NULL]
        ELSE IF currentPhase = "sabotage_select_red"
                \/ (isDelayedReselect /\ playerColor = "red")
        THEN ReselectTransition(flagCleared, "red", cause)
        ELSE IF currentPhase = "sabotage_select_yellow"
                \/ (isDelayedReselect /\ playerColor = "yellow")
        THEN ReselectTransition(flagCleared, "yellow", cause)
        ELSE flagCleared

\* The session after an accepted select_sabotage (lines 223-302).
SelectedGame(game, playerColor, row, col) ==
    LET isDelayedReselect == game.gamePhase = "playing" /\ canSelect(game, playerColor)
        spotSet == IF playerColor = "red"
                   THEN [game EXCEPT !.redSabotage = <<row, col>>]
                   ELSE [game EXCEPT !.yellowSabotage = <<row, col>>]
        currentPhase == game.gamePhase
        cause == game.sabotageTriggeredBy
        flagCleared == IF isDelayedReselect
                       THEN [spotSet EXCEPT !.pendingReselect[playerColor] = FALSE]
                       ELSE spotSet
    IN  IF currentPhase = "init_select_red"
        THEN [flagCleared EXCEPT !.gamePhase = "init_select_yellow",
                                 !.currentPlayer = "yellow",
                                 !.sabotageTriggeredBy = NULL]
        ELSE IF currentPhase = "init_select_yellow"
        THEN [flagCleared EXCEPT !.gamePhase = "playing",
                                 !.currentPlayer = "red",
                                 !.sabotageTriggeredBy = NULL]
        ELSE IF currentPhase = "sabotage_select_red"
                \/ (isDelayedReselect /\ playerColor = "red")
        THEN ReselectTransition(flagCleared, "red", cause)
        ELSE IF currentPhase = "sabotage_select_yellow"
                \/ (isDelayedReselect /\ playerColor = "yellow")
        THEN ReselectTransition(flagCleared, "yellow", cause)
        ELSE flagCleared

SelectAccepted(s, g, row, col) ==
    /\ g \in DOMAIN games
    /\ games[g].players[s] # NULL
    /\ canSelect(games[g], games[g].players[s])
    /\ ValidCoords(row, col)

\* Faulty variant of SelectSabotage: a sender that is no participant gets no answer.
SelectSabotage_SilentOnStranger(s, g, row, col) ==
    IF g = ProtoId
    THEN Throws
    ELSE /\ UNCHANGED connected
         /\ IF SelectAccepted(s, g, row, col)
            THEN /\ games' = [games EXCEPT ![g] = SelectedGame(games[g], games[g].players[s], row, col)]
                 /\ sent' = << Update(Room(g), g, games'[g]) >>
                 /\ UNCHANGED rooms
            ELSE IF g \in DOMAIN games /\ games[g].players[s] = NULL
            THEN /\ sent' = << >>
                 /\ UNCHANGED <<games, rooms>>
            ELSE /\ sent' = << Err(s, "game_error") >>
                 /\ UNCHANGED <<games, rooms>>

SelectSabotage(s, g, row, col) ==
    IF g = ProtoId
    THEN Throws
    ELSE /\ UNCHANGED connected
         /\ IF SelectAccepted(s, g, row, col)
            THEN /\ games' = [games EXCEPT ![g] = SelectedGame(games[g], games[g].players[s], row, col)]
                 /\ sent' = << Update(Room(g), g, games'[g]) >>
                 /\ UNCHANGED rooms
            ELSE /\ sent' = << Err(s, "game_error") >>
                 /\ UNCHANGED <<games, rooms>>

(***************************************************************************)
(* make_move                                                               *)
(***************************************************************************)
needsReselect(game, playerMakingMove) ==
    IF playerMakingMove = "red" /\ game.pendingReselect.red THEN TRUE
    ELSE IF playerMakingMove = "yellow" /\ game.pendingReselect.yellow THEN TRUE
    ELSE FALSE

\* Faulty variant of GateGame: both pending flags are reset, as the sabotage outcomes do.
GateGame_ClearsBothFlags(game, playerMakingMove) ==
    LET cleared == IF playerMakingMove = "red"
                   THEN [game EXCEPT !.redSabotage = NoSpot]
                   ELSE [game EXCEPT !.yellowSabotage = NoSpot]
    IN  [cleared EXCEPT !.pendingReselect = [red |-> FALSE, yellow |-> FALSE],
                        !.gamePhase = SelectPhase(playerMakingMove),
                        !.currentPlayer = playerMakingMove,
                        !.sabotageTriggeredBy = NULL,
                        !.overlapJustTriggered = NULL]

\* Faulty variant of GateGame: the piece lying on the cleared spot is taken off the board.
GateGame_RemovesPiece(game, playerMakingMove) ==
    LET spot == IF playerMakingMove = "red" THEN game.redSabotage ELSE game.yellowSabotage
        lifted == IF spot = NoSpot THEN game
                  ELSE [game EXCEPT !.board[spot[1]][spot[2]] = NULL]
        cleared == IF playerMakingMove = "red"
                   THEN [lifted EXCEPT !.redSabotage = NoSpot,
                                       !.pendingReselect.red = FALSE]
                   ELSE [lifted EXCEPT !.yellowSabotage = NoSpot,
                                       !.pendingReselect.yellow = FALSE]
    IN  [cleared EXCEPT !.gamePhase = SelectPhase(playerMakingMove),
                        !.currentPlayer = playerMakingMove,
                        !.sabotageTriggeredBy = NULL,
                        !.overlapJustTriggered = NULL]

\* Faulty variant of GateGame: the turn is not handed to the reselecting player.
GateGame_KeepsTurn(game, playerMakingMove) ==
    LET cleared == IF playerMakingMove = "red"
                   THEN [game EXCEPT !.redSabotage = NoSpot,
                                     !.pendingReselect.red = FALSE]
                   ELSE [game EXCEPT !.yellowSabotage = NoSpot,
                                     !.pendingReselect.yellow = FALSE]
    IN  [cleared EXCEPT !.gamePhase = SelectPhase(playerMakingMove),
                        !.sabotageTriggeredBy = NULL,
                        !.overlapJustTriggered = NULL]

\* Faulty variant of GateGame: the spot is cleared but no reselection phase is entered.
GateGame_StaysPlaying(game, playerMakingMove) ==
    LET cleared == IF playerMakingMove = "red"
                   THEN [game EXCEPT !.redSabotage = NoSpot,
                                     !.pendingReselect.red = FALSE]
                   ELSE [game EXCEPT !.yellowSabotage = NoSpot,
                                     !.pendingReselect.yellow = FALSE]
    IN  [cleared EXCEPT !.currentPlayer = playerMakingMove,
                        !.sabotageTriggeredBy = NULL,
                        !.overlapJustTriggered = NULL]

\* Faulty variant of GateGame: the pendingReselect flag of the mover stays set.
GateGame_KeepsFlag(game, playerMakingMove) ==
    LET cleared == IF playerMakingMove = "red"
                   THEN [game EXCEPT !.redSabotage = NoSpot]
                   ELSE [game EXCEPT !.yellowSabotage = NoSpot]
    IN  [cleared EXCEPT !.gamePhase = SelectPhase(playerMakingMove),
                        !.currentPlayer = playerMakingMove,
                        !.sabotageTriggeredBy = NULL,
                        !.overlapJustTriggered = NULL]

\* Lines 333-353: the move is dropped and the mover starts a reselection.
GateGame(game, playerMakingMove) ==
    LET cleared == IF playerMakingMove = "red"
                   THEN [game EXCEPT !.redSabotage = NoSpot,
                                     !.pendingReselect.red = FALSE]
                   ELSE [game EXCEPT !.yellowSabotage = NoSpot,
                                     !.pendingReselect.yellow = FALSE]
    IN  [cleared EXCEPT !.gamePhase = SelectPhase(playerMakingMove),
                        !.currentPlayer = playerMakingMove,
                        !.sabotageTriggeredBy = NULL,
                        !.overlapJustTriggered = NULL]

\* Lines 375-382: the lowest empty row of the column, -1 when it has none.
RECURSIVE LandingFrom(_, _, _)
LandingFrom(board, colIndex, i) ==
    IF i < 0 THEN -1
    ELSE IF board[i][colIndex] = NULL THEN i
    ELSE LandingFrom(board, colIndex, i - 1)

\* Faulty variant of LandingRow: the piece stays in the top row of the column.
LandingRow_Topmost(board, colIndex) ==
    IF board[0][colIndex] = NULL THEN 0 ELSE -1

LandingRow(board, colIndex) == LandingFrom(board, colIndex, ROWS - 1)

SpotIs(spot, row, col) == spot # NoSpot /\ spot[1] = row /\ spot[2] = col

isOverlap(game, rowIndex, colIndex) ==
    SpotIs(game.redSabotage, rowIndex, colIndex) /\ SpotIs(game.yellowSabotage, rowIndex, colIndex)

isOpponentSabotage(game, playerMakingMove, rowIndex, colIndex) ==
    /\ ~isOverlap(game, rowIndex, colIndex)
    /\ \/ playerMakingMove = "red" /\ SpotIs(game.yellowSabotage, rowIndex, colIndex)
       \/ playerMakingMove = "yellow" /\ SpotIs(game.redSabotage, rowIndex, colIndex)

isOwnSabotage(game, playerMakingMove, rowIndex, colIndex) ==
    /\ ~isOverlap(game, rowIndex, colIndex)
    /\ ~isOpponentSabotage(game, playerMakingMove, rowIndex, colIndex)
    /\ \/ playerMakingMove = "red" /\ SpotIs(game.redSabotage, rowIndex, colIndex)
       \/ playerMakingMove = "yellow" /\ SpotIs(game.yellowSabotage, rowIndex, colIndex)

\* Faulty variant of playerToPlace: the piece is never flipped.
playerToPlace_Mover(game, playerMakingMove, rowIndex, colIndex) == playerMakingMove

playerToPlace(game, playerMakingMove, rowIndex, colIndex) ==
    IF isOpponentSabotage(game, playerMakingMove, rowIndex, colIndex)
    THEN Opp(playerMakingMove)
    ELSE playerMakingMove

\* Faulty variant of OverlapOutcome: the opponent of the mover selects first.
OverlapOutcome_OpponentFirst(placed, playerMakingMove) ==
    [placed EXCEPT !.overlapJustTriggered = playerMakingMove,
                   !.redSabotage = NoSpot,
                   !.yellowSabotage = NoSpot,
                   !.pendingReselect = [red |-> FALSE, yellow |-> FALSE],
                   !.sabotageTriggeredBy = NULL,
                   !.gamePhase = SelectPhase(Opp(playerMakingMove)),
                   !.currentPlayer = Opp(playerMakingMove)]

\* Lines 431-439: both spots were on the landing cell.
OverlapOutcome(placed, playerMakingMove) ==
    [placed EXCEPT !.overlapJustTriggered = playerMakingMove,
                   !.redSabotage = NoSpot,
                   !.yellowSabotage = NoSpot,
                   !.pendingReselect = [red |-> FALSE, yellow |-> FALSE],
                   !.sabotageTriggeredBy = NULL,
                   !.gamePhase = SelectPhase(playerMakingMove),
                   !.currentPlayer = playerMakingMove]

\* Lines 440-448: the landing cell was the opponent's spot.
OpponentOutcome(placed, playerMakingMove) ==
    LET opponent == Opp(playerMakingMove)
        spotCleared == IF playerMakingMove = "red"
                       THEN [placed EXCEPT !.yellowSabotage = NoSpot]
                       ELSE [placed EXCEPT !.redSabotage = NoSpot]
    IN  [spotCleared EXCEPT !.overlapJustTriggered = NULL,
                            !.sabotageTriggeredBy = playerMakingMove,
                            !.pendingReselect = [red |-> FALSE, yellow |-> FALSE],
                            !.gamePhase = SelectPhase(opponent),
                            !.currentPlayer = opponent]

\* Faulty variant of OwnOutcome: the mover's spot is cleared at once.
OwnOutcome_ClearsSpot(placed, playerMakingMove) ==
    LET spotCleared == IF playerMakingMove = "red"
                       THEN [placed EXCEPT !.redSabotage = NoSpot]
                       ELSE [placed EXCEPT !.yellowSabotage = NoSpot]
    IN  [spotCleared EXCEPT !.overlapJustTriggered = NULL,
                            !.pendingReselect[playerMakingMove] = TRUE,
                            !.sabotageTriggeredBy = playerMakingMove,
                            !.currentPlayer = Opp(playerMakingMove)]

\* Lines 449-457: the landing cell was the mover's own spot.
OwnOutcome(placed, playerMakingMove) ==
    [placed EXCEPT !.overlapJustTriggered = NULL,
                   !.pendingReselect[playerMakingMove] = TRUE,
                   !.sabotageTriggeredBy = playerMakingMove,
                   !.currentPlayer = Opp(playerMakingMove)]

\* Faulty variant of NormalOutcome: sabotageTriggeredBy is not cleared.
NormalOutcome_KeepsCause(placed, playerMakingMove) ==
    [placed EXCEPT !.overlapJustTriggered = NULL,
                   !.currentPlayer = Opp(playerMakingMove)]

\* Lines 458-464: no spot on the landing cell.
NormalOutcome(placed, playerMakingMove) ==
    [placed EXCEPT !.overlapJustTriggered = NULL,
                   !.sabotageTriggeredBy = NULL,
                   !.currentPlayer = Opp(playerMakingMove)]

\* Lines 430-464: sabotage outcome and next turn of a move that ends nothing.
\* `game` is the session before the move, `placed` the session with the piece on the board.
SabotageOutcome(game, placed, playerMakingMove, rowIndex, colIndex) ==
    IF isOverlap(game, rowIndex, colIndex)
    THEN OverlapOutcome(placed, playerMakingMove)
    ELSE IF isOpponentSabotage(game, playerMakingMove, rowIndex, colIndex)
    THEN OpponentOutcome(placed, playerMakingMove)
    ELSE IF isOwnSabotage(game, playerMakingMove, rowIndex, colIndex)
    THEN OwnOutcome(placed, playerMakingMove)
    ELSE NormalOutcome(placed, playerMakingMove)

\* Faulty variant of PlacedGame: a winning move still runs the sabotage resolution.
PlacedGame_ResolvesOnWin(game, playerMakingMove, rowIndex, colIndex) ==
    LET piece == playerToPlace(game, playerMakingMove, rowIndex, colIndex)
        placed == [game EXCEPT !.board[rowIndex][colIndex] = piece]
        resolved == SabotageOutcome(game, placed, playerMakingMove, rowIndex, colIndex)
    IN  IF checkWin(placed.board, piece, rowIndex, colIndex)
        THEN [resolved EXCEPT !.winner = piece, !.gamePhase = "game_over"]
        ELSE IF checkDraw(placed.board)
        THEN [placed EXCEPT !.isDraw = TRUE, !.gamePhase = "game_over"]
        ELSE resolved

\* Lines 390-464: the session after a validated move into colIndex, landing on rowIndex.
PlacedGame(game, playerMakingMove, rowIndex, colIndex) ==
    LET piece == playerToPlace(game, playerMakingMove, rowIndex, colIndex)
        placed == [game EXCEPT !.board[rowIndex][colIndex] = piece]
    IN  IF checkWin(placed.board, piece, rowIndex, colIndex)
        THEN [placed EXCEPT !.winner = piece, !.gamePhase = "game_over"]
        ELSE IF checkDraw(placed.board)
        THEN [placed EXCEPT !.isDraw = TRUE, !.gamePhase = "game_over"]
        ELSE SabotageOutcome(game, placed, playerMakingMove, rowIndex, colIndex)

\* The sender is a participant of a live session.
Identified(s, g) == g \in DOMAIN games /\ games[g].players[s] # NULL

\* The move is redirected into a reselection (line 333).
MoveGated(s, g) == Identified(s, g) /\ needsReselect(games[g], games[g].players[s])

\* The move passes every validation and puts a piece on the board (lines 356-388).
MovePlaces(s, g, colIndex) ==
    /\ Identified(s, g)
    /\ ~needsReselect(games[g], games[g].players[s])
    /\ games[g].gamePhase = "playing"
    /\ games[g].currentPlayer = games[g].players[s]
    /\ ~(colIndex < 0 \/ colIndex >= COLS)
    /\ LandingRow(games[g].board, colIndex) >= 0

\* Faulty variant of MakeMove: the redirected move notifies the sender only.
MakeMove_GateNotifiesSender(s, g, colIndex) ==
    IF g = ProtoId
    THEN Throws
    ELSE /\ UNCHANGED connected
         /\ IF MoveGated(s, g)
            THEN /\ games' = [games EXCEPT ![g] = GateGame(games[g], games[g].players[s])]
                 /\ sent' = << Update({s}, g, games'[g]) >>
                 /\ UNCHANGED rooms
            ELSE IF MovePlaces(s, g, colIndex)
            THEN /\ games' = [games EXCEPT ![g] =
                                 PlacedGame(games[g], games[g].players[s],
                                            LandingRow(games[g].board, colIndex), colIndex)]
                 /\ sent' = << Update(Room(g), g, games'[g]) >>
                 /\ UNCHANGED rooms
            ELSE /\ sent' = << Err(s, "game_error") >>
                 /\ UNCHANGED <<games, rooms>>

MakeMove(s, g, colIndex) ==
    IF g = ProtoId
    THEN Throws
    ELSE /\ UNCHANGED connected
         /\ IF MoveGated(s, g)
            THEN /\ games' = [games EXCEPT ![g] = GateGame(games[g], games[g].players[s])]
                 /\ sent' = << Update(Room(g), g, games'[g]) >>
                 /\ UNCHANGED rooms
            ELSE IF MovePlaces(s, g, colIndex)
            THEN /\ games' = [games EXCEPT ![g] =
                                 PlacedGame(games[g], games[g].players[s],
                                            LandingRow(games[g].board, colIndex), colIndex)]
                 /\ sent' = << Update(Room(g), g, games'[g]) >>
                 /\ UNCHANGED rooms
            ELSE /\ sent' = << Err(s, "game_error") >>
                 /\ UNCHANGED <<games, rooms>>

(***************************************************************************)
(* request_rematch                                                         *)
(***************************************************************************)

\* Faulty variant of ResetGame: the colors are not swapped.
ResetGame_KeepsColors(game) ==
    [ board |-> createEmptyBoard,
      players |-> game.players,
      playerSockets |-> game.playerSockets,
      currentPlayer |-> "red",
      winner |-> NULL,
      isDraw |-> FALSE,
      gamePhase |-> "init_select_red",
      redSabotage |-> NoSpot,
      yellowSabotage |-> NoSpot,
      overlapJustTriggered |-> NULL,
      sabotageTriggeredBy |-> NULL,
      rematchRequested |-> [red |-> FALSE, yellow |-> FALSE],
      pendingReselect |-> [red |-> FALSE, yellow |-> FALSE] ]

\* Faulty variant of ResetGame: the rematch starts at Yellow's first selection.
ResetGame_SkipsRed(game) ==
    LET oldRedSocketId == game.playerSockets.red
        oldYellowSocketId == game.playerSockets.yellow
    IN  [ board |-> createEmptyBoard,
          players |-> [x \in Sockets |->
                          IF x = oldYellowSocketId THEN "red"
                          ELSE IF x = oldRedSocketId THEN "yellow"
                          ELSE NULL],
          playerSockets |-> [red |-> oldYellowSocketId, yellow |-> oldRedSocketId],
          currentPlayer |-> "yellow",
          winner |-> NULL,
          isDraw |-> FALSE,
          gamePhase |-> "init_select_yellow",
          redSabotage |-> NoSpot,
          yellowSabotage |-> NoSpot,
          overlapJustTriggered |-> NULL,
          sabotageTriggeredBy |-> NULL,
          rematchRequested |-> [red |-> FALSE, yellow |-> FALSE],
          pendingReselect |-> [red |-> FALSE, yellow |-> FALSE] ]

\* Lines 516-535: the reset once both players asked for a rematch.
ResetGame(game) ==
    LET oldRedSocketId == game.playerSockets.red
        oldYellowSocketId == game.playerSockets.yellow
    IN  [ board |-> createEmptyBoard,
          players |-> [x \in Sockets |->
                          IF x = oldYellowSocketId THEN "red"
                          ELSE IF x = oldRedSocketId THEN "yellow"
                          ELSE NULL],
          playerSockets |-> [red |-> oldYellowSocketId, yellow |-> oldRedSocketId],
          currentPlayer |-> "red",
          winner |-> NULL,
          isDraw |-> FALSE,
          gamePhase |-> "init_select_red",
          redSabotage |-> NoSpot,
          yellowSabotage |-> NoSpot,
          overlapJustTriggered |-> NULL,
          sabotageTriggeredBy |-> NULL,
          rematchRequested |-> [red |-> FALSE, yellow |-> FALSE],
          pendingReselect |-> [red |-> FALSE, yellow |-> FALSE] ]

RematchAccepted(s, g) ==
    /\ g \in DOMAIN games
    /\ games[g].gamePhase = "game_over"
    /\ games[g].players[s] # NULL

\* Faulty variant of RequestRematch: one request is enough for the reset.
RequestRematch_EitherFlag(s, g) ==
    /\ UNCHANGED connected
    /\ IF RematchAccepted(s, g)
       THEN LET marked == [games[g] EXCEPT !.rematchRequested[games[g].players[s]] = TRUE]
            IN  IF marked.rematchRequested.red \/ marked.rematchRequested.yellow
                THEN IF marked.playerSockets.red = NULL \/ marked.playerSockets.yellow = NULL
                     THEN /\ games' = [games EXCEPT ![g] = marked]
                          /\ sent' = << >>
                          /\ UNCHANGED rooms
                     ELSE /\ games' = [games EXCEPT ![g] = ResetGame(marked)]
                          /\ sent' = << Update(Room(g), g, games'[g]) >>
                          /\ UNCHANGED rooms
                ELSE /\ games' = [games EXCEPT ![g] = marked]
                     /\ sent' = << Update(Room(g), g, games'[g]) >>
                     /\ UNCHANGED rooms
       ELSE /\ sent' = << Err(s, "game_error") >>
            /\ UNCHANGED <<games, rooms>>

RequestRematch(s, g) ==
    /\ UNCHANGED connected
    /\ IF RematchAccepted(s, g)
       THEN LET marked == [games[g] EXCEPT !.rematchRequested[games[g].players[s]] = TRUE]
            IN  IF marked.rematchRequested.red /\ marked.rematchRequested.yellow
                THEN IF marked.playerSockets.red = NULL \/ marked.playerSockets.yellow = NULL
                     THEN /\ games' = [games EXCEPT ![g] = marked]
                          /\ sent' = << >>
                          /\ UNCHANGED rooms
                     ELSE /\ games' = [games EXCEPT ![g] = ResetGame(marked)]
                          /\ sent' = << Update(Room(g), g, games'[g]) >>
                          /\ UNCHANGED rooms
                ELSE /\ games' = [games EXCEPT ![g] = marked]
                     /\ sent' = << Update(Room(g), g, games'[g]) >>
                     /\ UNCHANGED rooms
       ELSE /\ sent' = << Err(s, "game_error") >>
            /\ UNCHANGED <<games, rooms>>

(***************************************************************************)
(* leave_game and disconnect                                               *)
(***************************************************************************)
\* The sessions handleLeave's loop can stop at: those holding the socket as red or yellow.
GamesOf(socketId) ==
    {g \in DOMAIN games : games[g].playerSockets.red = socketId
                          \/ games[g].playerSockets.yellow = socketId}

OpponentSocket(game, socketId) ==
    IF game.playerSockets.red = socketId
    THEN game.playerSockets.yellow
    ELSE game.playerSockets.red

\* Line 581: delete games[gameIdFound].
WithoutGame(g) == [h \in (DOMAIN games) \ {g} |-> games[h]]

\* Lines 575-578: opponent_left to the room named by the other participant's
\* socket id, if the session records one; the room is empty once that socket
\* has disconnected.
LeaveMsgs(socketId, g) ==
    IF OpponentSocket(games[g], socketId) # NULL
    THEN << Msg({OpponentSocket(games[g], socketId)} \cap connected, "opponent_left", g) >>
    ELSE << >>

\* handleLeave (lines 550-590); the leaving socket leaves the room of the session found.
handleLeave(socketId) ==
    IF GamesOf(socketId) = {}
    THEN /\ sent' = << >>
         /\ UNCHANGED <<games, rooms>>
    ELSE \E g \in GamesOf(socketId) :
            /\ games' = WithoutGame(g)
            /\ rooms' = [rooms EXCEPT ![g] = rooms[g] \ {socketId}]
            /\ sent' = LeaveMsgs(socketId, g)

LeaveGame(s, gameId) ==
    /\ UNCHANGED connected
    /\ IF gameId \in DOMAIN games \/ gameId = ProtoId
       THEN handleLeave(s)
       ELSE /\ sent' = << >>
            /\ UNCHANGED <<games, rooms>>

\* disconnect (lines 603-606): handleLeave; the transport has taken the socket
\* out of every room, and the socket sends and receives nothing afterwards.
Disconnect(s) ==
    /\ s \in connected
    /\ connected' = connected \ {s}
    /\ rooms' = [h \in DOMAIN rooms |-> rooms[h] \ {s}]
    /\ IF GamesOf(s) = {}
       THEN /\ sent' = << >>
            /\ UNCHANGED games
       ELSE \E g \in GamesOf(s) :
               /\ games' = WithoutGame(g)
               /\ sent' = LeaveMsgs(s, g)

(***************************************************************************)
(* Specification Spec: from the empty registry, inputs from small sets.    *)
(***************************************************************************)
\* Coordinates submitted to select_sabotage: three cells of columns 0 and 1
\* and one pair outside the board.
SpotInputs == {<<5, 0>>, <<4, 0>>, <<5, 1>>, <<ROWS, 0>>}

\* Columns submitted to make_move: two columns of the board and one outside.
MoveInputs == {0, 1, COLS}

\* The identifiers of no session: one that is not in the registry at all and
\* one that names a member of Object.prototype.
NoSessionIds == {UnknownId, ProtoId}

\* An action addressed to an identifier of no session is tried with one input.
WithUnknown(inputs) ==
    (GameIds \X inputs) \cup {<<g, CHOOSE x \in inputs : TRUE>> : g \in NoSessionIds}

Placed(game) ==
    Cardinality({rc \in RowIdx \X ColIdx : game.board[rc[1]][rc[2]] # NULL})

\* The sockets that create and that join a session; "s3" stays an outsider.
Creators == {"s1"}
Joiners == {"s1", "s2"}

Next ==
    \/ \E s \in Creators \cap connected, g \in GameIds : CreateGame(s, g)
    \/ \E s \in Joiners \cap connected, g \in GameIds \cup NoSessionIds : JoinGame(s, g)
    \/ \E s \in connected, in \in WithUnknown(SpotInputs) :
          SelectSabotage(s, in[1], in[2][1], in[2][2])
    \/ \E s \in connected, in \in WithUnknown(MoveInputs) :
          /\ MovePlaces(s, in[1], in[2]) => Placed(games[in[1]]) < MaxPieces
          /\ MakeMove(s, in[1], in[2])
    \/ \E s \in connected, g \in GameIds \cup NoSessionIds : RequestRematch(s, g)
    \/ \E s \in connected, g \in GameIds \cup NoSessionIds : LeaveGame(s, g)
    \/ \E s \in connected : Disconnect(s)

Spec == Init /\ [][Next]_vars

(***************************************************************************)
(* Specification SpecLate: the registry holds one session late in a match. *)
(* The initial session is computed by the handlers' own operators from a   *)
(* run of the server: s1 creates, s2 joins, Red selects (1,1), Yellow      *)
(* selects (1,2), and the players alternate through the first LateMoves    *)
(* columns of OpeningScript.  No move of the script lands on a sabotage    *)
(* spot or ends the match; after 37 moves the empty cells are (0,1),       *)
(* (1,1), (0,2), (1,2) and (0,3), and it is Yellow's turn.                 *)
(***************************************************************************)
OpeningScript ==
    << 6, 3, 5, 2, 2, 5, 5, 2, 6, 3, 6, 2, 5, 6, 4, 0, 6, 5, 6,
       4, 5, 3, 4, 4, 0, 4, 3, 4, 0, 3, 0, 0, 1, 1, 1, 0, 1, 3 >>

\* One scripted move: the player to move drops a piece into col.
ScriptStep(game, col) ==
    PlacedGame(game, game.currentPlayer, LandingRow(game.board, col), col)

\* The session after moves k..n of the script; the replay stops at a move that
\* leaves the playing phase.
RECURSIVE Replay(_, _, _)
Replay(game, k, n) ==
    IF k > n THEN game
    ELSE LET next == ScriptStep(game, OpeningScript[k])
         IN  IF next.gamePhase = "playing" THEN Replay(next, k + 1, n) ELSE next

LateGame ==
    Replay(SelectedGame(SelectedGame(JoinedGame(NewGame("s1"), "s2"), "red", 1, 1),
                        "yellow", 1, 2),
           1, LateMoves)

InitLate ==
    /\ games = ("g1" :> LateGame)
    /\ rooms = [g \in GameIds |-> {"s1", "s2"}]
    /\ sent = << Update({"s1", "s2"}, "g1", LateGame) >>
    /\ connected = Sockets

\* Coordinates submitted to select_sabotage: four of the cells still empty and
\* one pair outside the board.
SpotInputsLate == {<<0, 1>>, <<1, 2>>, <<0, 2>>, <<0, 3>>, <<ROWS, 0>>}

\* Columns submitted to make_move: a full column, the three columns with empty
\* cells, and one outside the board.
MoveInputsLate == {0, 1, 2, 3, COLS}

NextLate ==
    \/ \E s \in connected, g \in GameIds : CreateGame(s, g)
    \/ \E s \in Joiners \cap connected, g \in GameIds \cup NoSessionIds : JoinGame(s, g)
    \/ \E s \in connected, in \in WithUnknown(SpotInputsLate) :
          SelectSabotage(s, in[1], in[2][1], in[2][2])
    \/ \E s \in connected, in \in WithUnknown(MoveInputsLate) :
          /\ MovePlaces(s, in[1], in[2]) => Placed(games[in[1]]) >= LateMoves
          /\ MakeMove(s, in[1], in[2])
    \/ \E s \in connected, g \in GameIds \cup NoSessionIds : RequestRematch(s, g)
    \/ \E s \in connected, g \in GameIds \cup NoSessionIds : LeaveGame(s, g)
    \/ \E s \in connected : Disconnect(s)

SpecLate == InitLate /\ [][NextLate]_vars

(***************************************************************************)
(* Specification SpecLobby: from the empty registry, two identifiers, and   *)
(* every socket free to create, join and leave; a match goes no further     *)
(* than its first MaxLobbyPieces pieces.                                    *)
(***************************************************************************)
LobbyIds == {"g1", "g2"}

MaxLobbyPieces == 1

\* The one cell submitted to select_sabotage and the one column to make_move.
LobbySpot == <<5, 0>>
LobbyColumn == 0

InitLobby ==
    /\ games = << >>
    /\ rooms = [g \in LobbyIds |-> {}]
    /\ sent = << >>
    /\ connected = Sockets

NextLobby ==
    \/ \E s \in connected, g \in LobbyIds : CreateGame(s, g)
    \/ \E s \in connected, g \in LobbyIds \cup NoSessionIds : JoinGame(s, g)
    \/ \E s \in connected, g \in LobbyIds : SelectSabotage(s, g, LobbySpot[1], LobbySpot[2])
    \/ \E s \in connected, g \in LobbyIds :
          /\ MovePlaces(s, g, LobbyColumn) => Placed(games[g]) < MaxLobbyPieces
          /\ MakeMove(s, g, LobbyColumn)
    \/ \E s \in connected, g \in LobbyIds : RequestRematch(s, g)
    \/ \E s \in connected, g \in LobbyIds \cup NoSessionIds : LeaveGame(s, g)
    \/ \E s \in connected : Disconnect(s)

SpecLobby == InitLobby /\ [][NextLobby]_vars

(***************************************************************************)
(* Specification SpecPlay: the late match of SpecLate played on by its two *)
(* participants with no leave and no rematch.  Every step is a             *)
(* select_sabotage or a make_move that the server accepts, and the         *)
(* participants keep sending one as long as the server accepts one.        *)
(***************************************************************************)
AcceptedSelect(s, g, row, col) ==
    SelectAccepted(s, g, row, col) /\ SelectSabotage(s, g, row, col)

AcceptedMove(s, g, colIndex) ==
    (MoveGated(s, g) \/ MovePlaces(s, g, colIndex)) /\ MakeMove(s, g, colIndex)

NextPlay ==
    \/ \E s \in connected, g \in GameIds, rc \in SpotInputsLate :
          AcceptedSelect(s, g, rc[1], rc[2])
    \/ \E s \in connected, g \in GameIds, c \in MoveInputsLate :
          AcceptedMove(s, g, c)

SpecPlay == InitLate /\ [][NextPlay]_vars /\ WF_vars(NextPlay)

(***************************************************************************)
(* Specification SpecWin: checkWin as a function.  The registry holds one  *)
(* session whose board is drawn from a family of boards: a straight run of *)
(* one color, of four cells or more, alone or with a run of four of the    *)
(* other color elsewhere.  The one action calls checkWin at a cell that    *)
(* holds a piece, for both colors, and records what the calls returned as  *)
(* the last thing emitted.                                                 *)
(***************************************************************************)
\* Longest run drawn.
MaxRun == 5

Cells == RowIdx \X ColIdx

\* The four orientations: along the row, down the column, down each diagonal.
Directions == {<<0, 1>>, <<1, 0>>, <<1, 1>>, <<-1, 1>>}

\* n cells in a line from (r, c) in direction d.
RunCells(r, c, d, n) == {<<r + k * d[1], c + k * d[2]>> : k \in 0 .. (n - 1)}

\* The runs of n cells that lie on the board.
Runs(n) ==
    {cs \in {RunCells(rc[1], rc[2], d, n) : rc \in Cells, d \in Directions} :
        cs \subseteq Cells}

\* The board that holds `player` on the cells of own, the other color on the
\* cells of other, and nothing else.
BoardWith(own, player, other) ==
    [r \in RowIdx |-> [c \in ColIdx |->
        IF <<r, c>> \in own THEN player
        ELSE IF <<r, c>> \in other THEN Opp(player)
        ELSE NULL]]

WinBoards ==
    UNION {{BoardWith(own, player, other) :
               player \in Colors,
               other \in {cs \in Runs(4) \cup {{}} : cs \cap own = {}}} :
           own \in UNION {Runs(n) : n \in 4 .. MaxRun}}

InitWin ==
    /\ \E board \in WinBoards :
          games = [g \in GameIds |-> [NewGame("s1") EXCEPT !.board = board]]
    /\ rooms = [g \in GameIds |-> {}]
    /\ sent = << >>
    /\ connected = {}

\* What checkWin(board, player, r, c) returns, for each player.
WinResult(g, r, c) ==
    [to |-> {}, event |-> "checkWin", gameId |-> g, row |-> r, col |-> c,
     result |-> [player \in Colors |-> checkWin(games[g].board, player, r, c)]]

ApplyCheckWin(g, r, c) ==
    /\ games[g].board[r][c] # NULL
    /\ sent' = << WinResult(g, r, c) >>
    /\ UNCHANGED <<games, rooms, connected>>

NextWin == \E g \in GameIds, rc \in Cells : ApplyCheckWin(g, rc[1], rc[2])

SpecWin == InitWin /\ [][NextWin]_vars

\* The cells the four loops of checkWin(board, player, r, c) index, each loop
\* with its own start and bounds (lines 48, 55, 64 and 74).
ScannedCells(r, c) ==
    LET down == r - Min(r, c)
        right == c - Min(r, c)
        up == r + Min(ROWS - 1 - r, c)
        over == c - Min(ROWS - 1 - r, c)
        steps == 0 .. (ROWS + COLS)
    IN  {<<r, j>> : j \in 0 .. (COLS - 1)}
        \cup {<<i, c>> : i \in 0 .. (ROWS - 1)}
        \cup {<<down + k, right + k>> :
                 k \in {n \in steps : down + n < ROWS /\ right + n < COLS}}
        \cup {<<up - k, over + k>> :
                 k \in {n \in steps : up - n >= 0 /\ over + n < COLS}}

(***************************************************************************)
(* Specification SpecDraw: checkDraw as a function.  The registry holds    *)
(* one session whose board is any top row over a body (rows 1 to ROWS-1)   *)
(* that is empty or filled with one color.  The one action calls checkDraw *)
(* and records what it returned as the last thing emitted.                 *)
(***************************************************************************)
\* What a cell can hold.
CellValues == Colors \cup {NULL}

\* The board with the given top row over a body filled with `fill`.
BoardOver(top, fill) ==
    [r \in RowIdx |-> IF r = 0 THEN top ELSE [c \in ColIdx |-> fill]]

DrawBoards == {BoardOver(top, fill) : top \in [ColIdx -> CellValues], fill \in CellValues}

InitDraw ==
    /\ \E board \in DrawBoards :
          games = [g \in GameIds |-> [NewGame("s1") EXCEPT !.board = board]]
    /\ rooms = [g \in GameIds |-> {}]
    /\ sent = << >>
    /\ connected = {}

\* What checkDraw(board) returns.
DrawResult(g) ==
    [to |-> {}, event |-> "checkDraw", gameId |-> g,
     result |-> checkDraw(games[g].board)]

ApplyCheckDraw(g) ==
    /\ sent' = << DrawResult(g) >>
    /\ UNCHANGED <<games, rooms, connected>>

NextDraw == \E g \in GameIds : ApplyCheckDraw(g)

SpecDraw == InitDraw /\ [][NextDraw]_vars

(***************************************************************************)
(* Properties.                                                             *)
(***************************************************************************)
\* The session under identifier g after the step is a new one: create_game
\* drew g, and another session instance begins.
Replaced(g) ==
    /\ g \in DOMAIN games'
    /\ \E s \in Sockets : games'[g] = NewGame(s)

\* Every column and every pair of coordinates the two specifications submit.
AnyColumn == MoveInputs \cup MoveInputsLate
AnySpot == SpotInputs \cup SpotInputsLate

\* C1: the deferred-reselect gate of make_move fires only at the start of the
\* acting player's own turn: a make_move that is turned into a reselection was
\* sent in phase playing by the color named by currentPlayer, and a make_move
\* sent by a color that is not currentPlayer, or outside phase playing, changes
\* neither the phase, nor currentPlayer, nor a sabotage spot.
C1_GateOnlyOnOwnTurn ==
    [][\A s \in Sockets, g \in GameIds, c \in AnyColumn :
          (Identified(s, g) /\ MakeMove(s, g, c)) =>
             LET p == games[g].players[s]
             IN  /\ needsReselect(games[g], p) =>
                       (games[g].gamePhase = "playing" /\ games[g].currentPlayer = p)
                 /\ (games[g].currentPlayer # p \/ games[g].gamePhase # "playing") =>
                       /\ games'[g].gamePhase = games[g].gamePhase
                       /\ games'[g].currentPlayer = games[g].currentPlayer
                       /\ games'[g].redSabotage = games[g].redSabotage
                       /\ games'[g].yellowSabotage = games[g].yellowSabotage]_vars

\* C2: once the phase of a session is game_over, no make_move and no
\* select_sabotage changes any field of the session, and the phase leaves
\* game_over only by the reset of a mutual rematch (to init_select_red), by
\* the deletion of the session or by a new session taking its identifier.
C2_GameOverFrozen ==
    [][\A g \in DOMAIN games :
          (games[g].gamePhase = "game_over" /\ g \in DOMAIN games' /\ ~Replaced(g)) =>
             /\ \A s \in Sockets, c \in AnyColumn :
                   MakeMove(s, g, c) => games'[g] = games[g]
             /\ \A s \in Sockets, rc \in AnySpot :
                   SelectSabotage(s, g, rc[1], rc[2]) => games'[g] = games[g]
             /\ games'[g].gamePhase # "game_over" =>
                   /\ \E s \in Sockets : RequestRematch(s, g)
                   /\ games'[g].gamePhase = "init_select_red"]_vars

\* C3: in every reachable state of a session, winner being set and isDraw
\* being true never hold together.
C3_WinnerExcludesDraw ==
    \A g \in DOMAIN games : ~(games[g].winner # NULL /\ games[g].isDraw)

\* C4: within a match winner is set at most once: once winner is red or
\* yellow, no action changes it, except the reset of a mutual rematch, which
\* clears it; a new session that takes the identifier is another match.
C4_WinnerSetOnce ==
    [][\A g \in DOMAIN games :
          (games[g].winner # NULL /\ g \in DOMAIN games' /\ ~Replaced(g)) =>
             \/ games'[g].winner = games[g].winner
             \/ /\ \E s \in Sockets : RequestRematch(s, g)
                /\ games'[g].winner = NULL
                /\ games'[g].gamePhase = "init_select_red"
                /\ games'[g].board = createEmptyBoard]_vars

\* The sabotage spot of color p.
Spot(game, p) == IF p = "red" THEN game.redSabotage ELSE game.yellowSabotage

\* (r, c) is the lowest empty cell of column c.
Lands(board, r, c) ==
    /\ board[r][c] = NULL
    /\ \A r2 \in RowIdx : r2 > r => board[r2][c] # NULL

\* after differs from before in the cell (r, c) alone, empty before.
OnePiecePlaced(before, after, r, c) ==
    /\ before[r][c] = NULL
    /\ after[r][c] # NULL
    /\ \A r2 \in RowIdx, c2 \in ColIdx :
          (r2 # r \/ c2 # c) => after[r2][c2] = before[r2][c2]

\* Four cells in a line, one of them (r, c), all hold p.
FourThrough(board, p, r, c) ==
    \E d \in {<<0, 1>>, <<1, 0>>, <<1, 1>>, <<-1, 1>>}, k \in 0 .. 3 :
       \A n \in 0 .. 3 :
          LET i == r + (n - k) * d[1]
              j == c + (n - k) * d[2]
          IN  i \in RowIdx /\ j \in ColIdx /\ board[i][j] = p

TopRowFull(board) == \A c \in ColIdx : board[0][c] # NULL

\* C5: every step into phase game_over is an accepted make_move made in phase
\* playing whose piece completes four in a row (winner set to its color) or
\* fills the top row (isDraw set); no other action sets the phase to game_over.
C5_GameOverOnlyByWinOrDraw ==
    [][\A g \in DOMAIN games' :
          (games'[g].gamePhase = "game_over"
             /\ (g \notin DOMAIN games \/ games[g].gamePhase # "game_over")) =>
             /\ g \in DOMAIN games
             /\ games[g].gamePhase = "playing"
             /\ \E s \in Sockets, c \in AnyColumn :
                   /\ games[g].players[s] = games[g].currentPlayer
                   /\ MakeMove(s, g, c)
                   /\ \E r \in RowIdx :
                         /\ Lands(games[g].board, r, c)
                         /\ OnePiecePlaced(games[g].board, games'[g].board, r, c)
                         /\ \/ /\ FourThrough(games'[g].board, games'[g].board[r][c], r, c)
                               /\ games'[g].winner = games'[g].board[r][c]
                               /\ games'[g].isDraw = games[g].isDraw
                            \/ /\ TopRowFull(games'[g].board)
                               /\ games'[g].isDraw
                               /\ games'[g].winner = games[g].winner]_vars

\* C5 witness: a match has ended in a draw.
C5_Witness ==
    \E g \in DOMAIN games :
       games[g].gamePhase = "game_over" /\ games[g].isDraw /\ games[g].winner = NULL

\* The reselection p is about to make is owed to p's own landing on p's spot: it
\* is the deferred one (pendingReselect set, or the phase entered by the gate,
\* which leaves both trigger fields empty).
SelfTriggered(game, p) ==
    /\ game.overlapJustTriggered = NULL
    /\ \/ game.gamePhase = "playing" /\ game.pendingReselect[p]
       \/ game.gamePhase = SelectPhase(p) /\ game.sabotageTriggeredBy = NULL

\* The reselection p is about to make is owed to the opponent's landing on p's spot.
OpponentTriggered(game, p) ==
    /\ game.overlapJustTriggered = NULL
    /\ game.gamePhase = SelectPhase(p)
    /\ game.sabotageTriggeredBy = Opp(p)

\* C6: after a reselection that follows no overlap, the turn goes to the
\* opponent when the selecting player had landed on their own spot, and stays
\* with the selecting player when the opponent had landed on the spot.
C6_AsymmetricTieBreak ==
    [][\A s \in Sockets, g \in GameIds, rc \in AnySpot :
          (SelectAccepted(s, g, rc[1], rc[2]) /\ SelectSabotage(s, g, rc[1], rc[2])) =>
             LET p == games[g].players[s]
             IN  /\ SelfTriggered(games[g], p) =>
                       (games'[g].gamePhase = "playing" /\ games'[g].currentPlayer = Opp(p))
                 /\ OpponentTriggered(games[g], p) =>
                       (games'[g].gamePhase = "playing" /\ games'[g].currentPlayer = p)]_vars

\* The color that is to move in session g, owing no reselection, is played by
\* socket s, and a piece dropped into the column of the cell sp comes to rest on sp.
MayLandOn(g, s, sp) ==
    /\ g \in DOMAIN games
    /\ games[g].gamePhase = "playing"
    /\ games[g].players[s] = games[g].currentPlayer
    /\ ~games[g].pendingReselect[games[g].currentPlayer]
    /\ sp # NoSpot
    /\ Lands(games[g].board, sp[1], sp[2])

\* The step is the make_move of s into column c of g and does not end the match.
MovesOn(s, g, c) ==
    /\ g \in DOMAIN games'
    /\ games'[g].gamePhase # "game_over"
    /\ MakeMove(s, g, c)

\* C7: an accepted make_move that lands on the opponent's spot, not on an
\* overlap, and does not end the match: the cell takes the opponent's color,
\* the opponent's spot is cleared, sabotageTriggeredBy is the mover, the phase
\* is the opponent's sabotage_select phase and currentPlayer is the opponent.
C7_OpponentSabotage ==
    [][\A s \in Sockets, g \in GameIds :
          LET p  == games[g].players[s]
              sp == Spot(games[g], Opp(p))
          IN  (g \in DOMAIN games /\ p # NULL
                 /\ MayLandOn(g, s, sp)
                 /\ Spot(games[g], p) # sp
                 /\ MovesOn(s, g, sp[2])) =>
                 /\ games'[g].board[sp[1]][sp[2]] = Opp(p)
                 /\ Spot(games'[g], Opp(p)) = NoSpot
                 /\ games'[g].sabotageTriggeredBy = p
                 /\ games'[g].gamePhase = SelectPhase(Opp(p))
                 /\ games'[g].currentPlayer = Opp(p)]_vars

\* C7 witness: a mover has just landed on the opponent's spot.
C7_Witness ==
    \E g \in DOMAIN games, p \in Colors :
       /\ games[g].gamePhase = SelectPhase(Opp(p))
       /\ games[g].sabotageTriggeredBy = p
       /\ games[g].currentPlayer = Opp(p)
       /\ Spot(games[g], Opp(p)) = NoSpot
       /\ \E r \in RowIdx, c \in ColIdx : games[g].board[r][c] = Opp(p)

\* C8: an accepted make_move that lands on the mover's own spot, not on the
\* opponent's, and does not end the match: the cell keeps the mover's color,
\* the mover's pendingReselect flag is true, the mover's spot stays where it
\* was, the phase stays playing and currentPlayer is the opponent.
C8_OwnSabotage ==
    [][\A s \in Sockets, g \in GameIds :
          LET p  == games[g].players[s]
              sp == Spot(games[g], p)
          IN  (g \in DOMAIN games /\ p # NULL
                 /\ MayLandOn(g, s, sp)
                 /\ Spot(games[g], Opp(p)) # sp
                 /\ MovesOn(s, g, sp[2])) =>
                 /\ games'[g].board[sp[1]][sp[2]] = p
                 /\ games'[g].pendingReselect[p]
                 /\ Spot(games'[g], p) = sp
                 /\ games'[g].gamePhase = "playing"
                 /\ games'[g].currentPlayer = Opp(p)]_vars

\* C8 witness: a mover has just landed on their own spot.
C8_Witness ==
    \E g \in DOMAIN games, p \in Colors :
       /\ games[g].gamePhase = "playing"
       /\ games[g].pendingReselect[p]
       /\ games[g].sabotageTriggeredBy = p
       /\ games[g].currentPlayer = Opp(p)
       /\ Spot(games[g], p) # NoSpot
       /\ games[g].board[Spot(games[g], p)[1]][Spot(games[g], p)[2]] = p

\* C9: a make_move by a color whose pendingReselect flag is set places no
\* piece, clears that color's spot and flag, sets the phase to that color's
\* sabotage_select phase and currentPlayer to that color, and leaves the
\* opponent's spot and flag as they were.
C9_GateRedirect ==
    [][\A s \in Sockets, g \in GameIds, c \in AnyColumn, p \in Colors :
          (g \in DOMAIN games /\ games[g].players[s] = p
             /\ games[g].pendingReselect[p]
             /\ g \in DOMAIN games' /\ MakeMove(s, g, c)) =>
             /\ games'[g].board = games[g].board
             /\ Spot(games'[g], p) = NoSpot
             /\ ~games'[g].pendingReselect[p]
             /\ games'[g].gamePhase = SelectPhase(p)
             /\ games'[g].currentPlayer = p
             /\ Spot(games'[g], Opp(p)) = Spot(games[g], Opp(p))
             /\ games'[g].pendingReselect[Opp(p)] = games[g].pendingReselect[Opp(p)]]_vars

\* C9 witness: a move has just been redirected while the opponent's own
\* reselection is still pending.
C9_Witness ==
    \E g \in DOMAIN games, p \in Colors :
       /\ games[g].gamePhase = SelectPhase(p)
       /\ games[g].currentPlayer = p
       /\ Spot(games[g], p) = NoSpot
       /\ games[g].sabotageTriggeredBy = NULL
       /\ games[g].overlapJustTriggered = NULL
       /\ games[g].pendingReselect[Opp(p)]
       /\ Spot(games[g], Opp(p)) # NoSpot

\* C10: an accepted make_move that lands on the cell both spots are on and
\* does not end the match: the cell keeps the mover's color, both spots are
\* empty, both pendingReselect flags are false, overlapJustTriggered is the
\* mover, the phase is the mover's sabotage_select phase and currentPlayer is
\* the mover.
C10_Overlap ==
    [][\A s \in Sockets, g \in GameIds :
          LET p  == games[g].players[s]
              sp == games[g].redSabotage
          IN  (g \in DOMAIN games /\ p # NULL
                 /\ MayLandOn(g, s, sp)
                 /\ games[g].yellowSabotage = sp
                 /\ MovesOn(s, g, sp[2])) =>
                 /\ games'[g].board[sp[1]][sp[2]] = p
                 /\ games'[g].redSabotage = NoSpot
                 /\ games'[g].yellowSabotage = NoSpot
                 /\ games'[g].pendingReselect = [red |-> FALSE, yellow |-> FALSE]
                 /\ games'[g].overlapJustTriggered = p
                 /\ games'[g].gamePhase = SelectPhase(p)
                 /\ games'[g].currentPlayer = p]_vars

\* C10 witness: a mover has just landed on the cell both spots were on.
C10_Witness ==
    \E g \in DOMAIN games, p \in Colors :
       /\ games[g].overlapJustTriggered = p
       /\ games[g].gamePhase = SelectPhase(p)
       /\ games[g].currentPlayer = p
       /\ games[g].redSabotage = NoSpot
       /\ games[g].yellowSabotage = NoSpot
       /\ \E r \in RowIdx, c \in ColIdx : games[g].board[r][c] = p

\* The step is an accepted select_sabotage of color p in session g.
SelectsBy(g, p) ==
    \E s \in Sockets, rc \in AnySpot :
       /\ games[g].players[s] = p
       /\ Spot(games'[g], p) = rc
       /\ SelectSabotage(s, g, rc[1], rc[2])

\* C11: while overlapJustTriggered holds a mover X the phase is X's or the
\* opponent Y's sabotage_select phase; in X's phase the session changes only by
\* X's accepted select_sabotage, which leads to Y's phase with
\* overlapJustTriggered kept and currentPlayer Y; in Y's phase it changes only
\* by Y's accepted select_sabotage, which leads to playing with
\* overlapJustTriggered empty and currentPlayer Y.  A step that deletes the
\* session, or starts a new one under its identifier, ends it instead.
C11_OverlapSelectOrder ==
    [][\A g \in DOMAIN games :
          LET x == games[g].overlapJustTriggered
              y == Opp(x)
          IN  x # NULL =>
                /\ games[g].gamePhase \in {SelectPhase(x), SelectPhase(y)}
                /\ (g \in DOMAIN games' /\ games'[g] # games[g] /\ ~Replaced(g)) =>
                      IF games[g].gamePhase = SelectPhase(x)
                      THEN /\ SelectsBy(g, x)
                           /\ games'[g].gamePhase = SelectPhase(y)
                           /\ games'[g].overlapJustTriggered = x
                           /\ games'[g].currentPlayer = y
                      ELSE /\ SelectsBy(g, y)
                           /\ games'[g].gamePhase = "playing"
                           /\ games'[g].overlapJustTriggered = NULL
                           /\ games'[g].currentPlayer = y]_vars

\* C11 witness: after an overlap the mover has selected and the opponent is to select.
C11_Witness ==
    \E g \in DOMAIN games, x \in Colors :
       /\ games[g].overlapJustTriggered = x
       /\ games[g].gamePhase = SelectPhase(Opp(x))
       /\ games[g].currentPlayer = Opp(x)
       /\ Spot(games[g], x) # NoSpot
       /\ Spot(games[g], Opp(x)) = NoSpot

\* C12: an accepted make_move that lands on neither sabotage spot and ends the
\* match neither by a win nor by a draw leaves currentPlayer the opponent of
\* the mover and the phase playing, changes exactly one cell, from empty to the
\* mover's color, and leaves overlapJustTriggered and sabotageTriggeredBy empty.
C12_TurnAlternation ==
    [][\A s \in Sockets, g \in GameIds :
          (g \in DOMAIN games /\ games[g].gamePhase = "playing"
             /\ games[g].players[s] = games[g].currentPlayer) =>
             \A c \in AnyColumn \cap ColIdx, r \in RowIdx :
                LET p == games[g].players[s]
                IN  (MayLandOn(g, s, <<r, c>>)
                       /\ games[g].redSabotage # <<r, c>>
                       /\ games[g].yellowSabotage # <<r, c>>
                       /\ MovesOn(s, g, c)) =>
                       /\ games'[g].currentPlayer = Opp(p)
                       /\ games'[g].gamePhase = "playing"
                       /\ OnePiecePlaced(games[g].board, games'[g].board, r, c)
                       /\ games'[g].board[r][c] = p
                       /\ games'[g].overlapJustTriggered = NULL
                       /\ games'[g].sabotageTriggeredBy = NULL]_vars

\* C12 witness: the opponent of a player who owes a reselection has made a
\* plain move, and the turn is back with that player.
C12_Witness ==
    \E g \in DOMAIN games, p \in Colors :
       /\ games[g].gamePhase = "playing"
       /\ games[g].pendingReselect[p]
       /\ ~games[g].pendingReselect[Opp(p)]
       /\ games[g].currentPlayer = p
       /\ games[g].sabotageTriggeredBy = NULL

\* The conditions under which color p may select the cell (row, col).
LegalSelect(game, p, row, col) ==
    /\ 0 <= row /\ row < 6
    /\ 0 <= col /\ col < 7
    /\ game.currentPlayer = p
    /\ \/ game.gamePhase = (IF p = "red" THEN "init_select_red" ELSE "init_select_yellow")
       \/ game.gamePhase = (IF p = "red" THEN "sabotage_select_red" ELSE "sabotage_select_yellow")
       \/ game.gamePhase = "playing" /\ game.pendingReselect[p]

\* C13: a select_sabotage by a participant of a session is accepted (the
\* session changes and the selecting color's spot is the submitted cell)
\* exactly when the coordinates are on the board and either the phase is the
\* color's init_select or sabotage_select phase and it is the color's turn, or
\* the phase is playing, it is the color's turn and its pendingReselect flag
\* is set; otherwise the session is unchanged.
C13_SelectLegality ==
    [][\A s \in Sockets, g \in GameIds :
          (g \in DOMAIN games /\ games[g].players[s] # NULL) =>
             \A rc \in AnySpot :
                SelectSabotage(s, g, rc[1], rc[2]) =>
                   IF LegalSelect(games[g], games[g].players[s], rc[1], rc[2])
                   THEN /\ games'[g] # games[g]
                        /\ Spot(games'[g], games[g].players[s]) = rc
                   ELSE games'[g] = games[g]]_vars

\* C13 witness: Red's first selection of a match has been accepted.
C13_Witness ==
    \E g \in DOMAIN games :
       /\ games[g].gamePhase = "init_select_yellow"
       /\ games[g].currentPlayer = "yellow"
       /\ games[g].redSabotage # NoSpot
       /\ games[g].yellowSabotage = NoSpot

\* C14: in the state an accepted select_sabotage of a player leads to, no
\* select_sabotage of the same player is accepted, whatever the coordinates.
C14_NoSecondSelect ==
    [][\A s \in Sockets, g \in GameIds :
          (g \in DOMAIN games /\ games[g].players[s] # NULL) =>
             \A rc \in AnySpot :
                (SelectAccepted(s, g, rc[1], rc[2]) /\ SelectSabotage(s, g, rc[1], rc[2])) =>
                   \A rc2 \in AnySpot :
                      /\ ~LegalSelect(games'[g], games'[g].players[s], rc2[1], rc2[2])
                      /\ ~(SelectAccepted(s, g, rc2[1], rc2[2]))']_vars

\* C14 witness: a deferred reselection has been made in phase playing, and the
\* player who made it is to move.
C14_Witness ==
    \E g \in DOMAIN games, p \in Colors :
       /\ games[g].gamePhase = "playing"
       /\ games[g].currentPlayer = p
       /\ ~games[g].pendingReselect[p]
       /\ games[g].pendingReselect[Opp(p)]
       /\ games[g].sabotageTriggeredBy = NULL
       /\ Spot(games[g], p) # NoSpot
       /\ games[g].board[Spot(games[g], p)[1]][Spot(games[g], p)[2]] = NULL

\* C15: for an accepted make_move, if the placed piece, in the color it has
\* after a flip on the opponent's spot, completes four in a row, then winner is
\* that color, the phase is game_over and nothing else but the placed cell
\* changes (not the spots, the pendingReselect flags, overlapJustTriggered,
\* sabotageTriggeredBy or currentPlayer); isDraw changes only when there is no
\* such four and the top row is full, and then it is set.
C15_WinPrecedence ==
    [][\A s \in Sockets, g \in GameIds :
          (g \in DOMAIN games /\ games[g].gamePhase = "playing"
             /\ games[g].players[s] = games[g].currentPlayer) =>
             \A c \in AnyColumn \cap ColIdx, r \in RowIdx :
                (MayLandOn(g, s, <<r, c>>) /\ g \in DOMAIN games' /\ MakeMove(s, g, c)) =>
                   LET p == games[g].players[s]
                       piece == IF Spot(games[g], Opp(p)) = <<r, c>>
                                   /\ Spot(games[g], p) # <<r, c>>
                                THEN Opp(p) ELSE p
                       after == [games[g].board EXCEPT ![r][c] = piece]
                       win == FourThrough(after, piece, r, c)
                   IN  /\ win => games'[g] = [games[g] EXCEPT !.board = after,
                                                              !.winner = piece,
                                                              !.gamePhase = "game_over"]
                       /\ (~win /\ TopRowFull(after)) =>
                             games'[g] = [games[g] EXCEPT !.board = after,
                                                          !.isDraw = TRUE,
                                                          !.gamePhase = "game_over"]
                       /\ games'[g].isDraw # games[g].isDraw =>
                             (~win /\ TopRowFull(after) /\ games'[g].isDraw)]_vars

\* C15 witness: a player has won with a piece dropped on their own spot; the
\* turn has not passed and no reselection is owed.
C15_Witness ==
    \E g \in DOMAIN games, p \in Colors :
       /\ games[g].gamePhase = "game_over"
       /\ games[g].winner = p
       /\ games[g].currentPlayer = p
       /\ ~games[g].pendingReselect[p]
       /\ Spot(games[g], p) # NoSpot
       /\ games[g].board[Spot(games[g], p)[1]][Spot(games[g], p)[2]] = p

\* The step changes no session and sends nothing but messages to s alone, none
\* of them a game_update.
Inert(s) ==
    /\ games' = games
    /\ \A i \in DOMAIN sent' :
          sent'[i].event # "game_update" /\ sent'[i].to \subseteq {s}

\* C16: an action that is to be rejected changes no session and sends no
\* game_update, and nobody but its sender is sent anything: a select_sabotage,
\* make_move or request_rematch naming no session or sent by a non-participant,
\* a select_sabotage at an illegal time or off the board, a make_move in a
\* phase other than playing or out of turn, a make_move of the player to move,
\* owing no reselection, into a column off the board or full, a request_rematch
\* outside game_over, and a join_game of no session or of a full one.
C16_RejectionsInert ==
    [][\A s \in Sockets, g \in GameIds \cup NoSessionIds :
          LET known == g \in DOMAIN games
              p == games[g].players[s]
          IN  /\ \A rc \in AnySpot :
                    (SelectSabotage(s, g, rc[1], rc[2])
                       /\ (~known \/ p = NULL \/ ~LegalSelect(games[g], p, rc[1], rc[2])))
                    => Inert(s)
              /\ \A c \in AnyColumn :
                    (MakeMove(s, g, c)
                       /\ \/ ~known
                          \/ p = NULL
                          \/ games[g].gamePhase # "playing"
                          \/ games[g].currentPlayer # p
                          \/ /\ ~games[g].pendingReselect[p]
                             /\ (c \notin ColIdx \/ games[g].board[0][c] # NULL))
                    => Inert(s)
              /\ (RequestRematch(s, g)
                    /\ (~known \/ p = NULL \/ games[g].gamePhase # "game_over"))
                 => Inert(s)
              /\ (JoinGame(s, g) /\ (~known \/ games[g].playerSockets.yellow # NULL))
                 => Inert(s)]_vars

\* Socket s, of color p, asks for a rematch of session g, which is over.
AsksRematch(s, g, p) ==
    /\ g \in DOMAIN games
    /\ games[g].gamePhase = "game_over"
    /\ games[g].players[s] = p
    /\ g \in DOMAIN games'
    /\ RequestRematch(s, g)

\* C17: a request_rematch in phase game_over that finds the other color's
\* rematchRequested flag set swaps the colors of the two participants, empties
\* the board, winner, both spots, overlapJustTriggered and sabotageTriggeredBy,
\* sets isDraw, both pendingReselect flags and both rematchRequested flags to
\* false, the phase to init_select_red and currentPlayer to red.
C17_MutualRematch ==
    [][\A s \in Sockets, g \in GameIds, p \in Colors :
          (AsksRematch(s, g, p) /\ games[g].rematchRequested[Opp(p)]) =>
             /\ games'[g].playerSockets = [red |-> games[g].playerSockets.yellow,
                                           yellow |-> games[g].playerSockets.red]
             /\ \A x \in Sockets :
                   games'[g].players[x] = IF games[g].players[x] = NULL THEN NULL
                                          ELSE Opp(games[g].players[x])
             /\ \A r \in RowIdx, c \in ColIdx : games'[g].board[r][c] = NULL
             /\ games'[g].winner = NULL
             /\ games'[g].isDraw = FALSE
             /\ games'[g].redSabotage = NoSpot
             /\ games'[g].yellowSabotage = NoSpot
             /\ games'[g].overlapJustTriggered = NULL
             /\ games'[g].sabotageTriggeredBy = NULL
             /\ games'[g].pendingReselect = [red |-> FALSE, yellow |-> FALSE]
             /\ games'[g].rematchRequested = [red |-> FALSE, yellow |-> FALSE]
             /\ games'[g].gamePhase = "init_select_red"
             /\ games'[g].currentPlayer = "red"]_vars

\* C17 witness: the creator of the session, its first Red, plays Yellow in a
\* fresh match.
C17_Witness ==
    \E g \in DOMAIN games :
       /\ games[g].gamePhase = "init_select_red"
       /\ games[g].playerSockets = [red |-> "s2", yellow |-> "s1"]
       /\ games[g].players["s2"] = "red"
       /\ games[g].players["s1"] = "yellow"
       /\ games[g].board = createEmptyBoard

\* C18: a request_rematch in phase game_over that finds the other color's
\* rematchRequested flag false sets the requester's flag and changes nothing
\* else, also when the requester's flag was set already.
C18_PartialRematch ==
    [][\A s \in Sockets, g \in GameIds, p \in Colors :
          (AsksRematch(s, g, p) /\ ~games[g].rematchRequested[Opp(p)]) =>
             /\ games'[g] = [games[g] EXCEPT !.rematchRequested[p] = TRUE]
             /\ games[g].rematchRequested[p] => games'[g] = games[g]]_vars

\* C18 witness: one participant alone has asked for a rematch.
C18_Witness ==
    \E g \in DOMAIN games, p \in Colors :
       /\ games[g].gamePhase = "game_over"
       /\ games[g].rematchRequested[p]
       /\ ~games[g].rematchRequested[Opp(p)]

\* The step changes no session and no room, and sends s one join_error and
\* nothing else.
JoinRefused(s) ==
    /\ games' = games
    /\ rooms' = rooms
    /\ Len(sent') = 1
    /\ sent'[1].event = "join_error"
    /\ sent'[1].to = {s}

\* C19: a join_game naming no session, or a session whose Yellow is assigned,
\* changes nothing and is answered by an error; one by the Red of a session
\* without Yellow changes nothing and is not answered; any other makes the
\* joiner Yellow, sets the phase to init_select_red and currentPlayer to red,
\* and leaves the board, Red's assignment, every other field and every other
\* session as they were.
C19_Join ==
    [][\A s \in Sockets, g \in LobbyIds \cup NoSessionIds :
          JoinGame(s, g) =>
             IF g \notin DOMAIN games THEN JoinRefused(s)
             ELSE IF games[g].playerSockets.yellow # NULL THEN JoinRefused(s)
             ELSE IF games[g].playerSockets.red = s
             THEN games' = games /\ rooms' = rooms /\ sent' = << >>
             ELSE /\ DOMAIN games' = DOMAIN games
                  /\ \A h \in DOMAIN games : h # g => games'[h] = games[h]
                  /\ games'[g].playerSockets.yellow = s
                  /\ games'[g].players[s] = "yellow"
                  /\ games'[g].gamePhase = "init_select_red"
                  /\ games'[g].currentPlayer = "red"
                  /\ games'[g].board = games[g].board
                  /\ games'[g].playerSockets.red = games[g].playerSockets.red
                  /\ \A x \in Sockets \ {s} : games'[g].players[x] = games[g].players[x]
                  /\ \A f \in (DOMAIN games[g]) \ {"players", "playerSockets",
                                                   "gamePhase", "currentPlayer"} :
                        games'[g][f] = games[g][f]]_vars

\* C19 witness: a second participant has joined a session and Red is to select.
C19_Witness ==
    \E g \in DOMAIN games :
       /\ games[g].gamePhase = "init_select_red"
       /\ games[g].currentPlayer = "red"
       /\ games[g].playerSockets.red # NULL
       /\ games[g].playerSockets.yellow # NULL
       /\ games[g].players[games[g].playerSockets.yellow] = "yellow"
       /\ \E i \in DOMAIN sent : sent[i].event = "game_joined"

\* Session h is deleted by the step, and the other participant of h, if there
\* is one, is sent opponent_left.
LeftBy(s, h) ==
    /\ h \notin DOMAIN games'
    /\ OpponentSocket(games[h], s) # NULL =>
          \E i \in DOMAIN sent' :
             /\ sent'[i].event = "opponent_left"
             /\ sent'[i].to = {OpponentSocket(games[h], s)}

\* C20: for a participant of a session, a leave_game, whatever identifier it
\* carries, and a disconnect both delete a session of the participant and send
\* opponent_left to the other participant of that session, if there is one.
C20_LeaveAsDisconnect ==
    [][\A s \in Sockets :
          GamesOf(s) # {} =>
             /\ \A g \in LobbyIds \cup NoSessionIds :
                   LeaveGame(s, g) => \E h \in GamesOf(s) : LeftBy(s, h)
             /\ Disconnect(s) => \E h \in GamesOf(s) : LeftBy(s, h)]_vars

\* Every session other than g is in the registry after the step, unchanged.
OthersUntouched(g) ==
    \A h \in (DOMAIN games) \ {g} : h \in DOMAIN games' /\ games'[h] = games[h]

\* C21: a join_game, select_sabotage, make_move, request_rematch or leave_game
\* that names session g changes and deletes no session other than g.
C21_SessionsIndependent ==
    [][\A s \in Sockets, g \in LobbyIds \cup NoSessionIds :
          /\ JoinGame(s, g) => OthersUntouched(g)
          /\ SelectSabotage(s, g, LobbySpot[1], LobbySpot[2]) => OthersUntouched(g)
          /\ MakeMove(s, g, LobbyColumn) => OthersUntouched(g)
          /\ RequestRematch(s, g) => OthersUntouched(g)
          /\ LeaveGame(s, g) => OthersUntouched(g)]_vars

\* C22: in the state an accepted placing make_move of a participant leads to,
\* a further make_move of the same participant, whatever its column, neither
\* places a piece nor is turned into a reselection: it is rejected and the
\* session stays as it is.
C22_DoubleSubmitRejected ==
    [][\A s \in Sockets, g \in GameIds :
          (g \in DOMAIN games /\ games[g].gamePhase = "playing"
             /\ games[g].players[s] = games[g].currentPlayer) =>
             \A c \in AnyColumn :
                (MovePlaces(s, g, c) /\ g \in DOMAIN games' /\ MakeMove(s, g, c)) =>
                   /\ ~(MoveGated(s, g))'
                   /\ \A c2 \in AnyColumn : ~(MovePlaces(s, g, c2))']_vars

\* The sockets recorded as red and yellow of a session.
Participants(game) == {game.playerSockets.red, game.playerSockets.yellow} \ {NULL}

\* The step emitted one game_update, for session g, carrying the session as
\* the step left it, to a set of sockets that holds every participant.
OneSnapshot(g) ==
    /\ g \in DOMAIN games'
    /\ LET ups == {i \in DOMAIN sent' : sent'[i].event = "game_update"}
       IN  /\ Cardinality(ups) = 1
           /\ \A i \in ups : /\ sent'[i].gameId = g
                             /\ sent'[i].game = games'[g]
                             /\ Participants(games'[g]) \subseteq sent'[i].to

\* join_game passes its checks: the session is live, has no yellow, and the
\* sender is not its red.
JoinAccepted(s, g) ==
    /\ g \in DOMAIN games
    /\ games[g].playerSockets.yellow = NULL
    /\ games[g].playerSockets.red # s

\* Every game_update the step emitted carries the session of its identifier
\* as the step left it and is addressed to every participant of that session:
\* whatever one participant is sent, the other is sent in the same step.
SameSnapshots ==
    \A i \in DOMAIN sent' :
       sent'[i].event = "game_update" =>
          /\ sent'[i].gameId \in DOMAIN games'
          /\ sent'[i].game = games'[sent'[i].gameId]
          /\ Participants(games'[sent'[i].gameId]) \subseteq sent'[i].to

\* C23: every accepted join_game, select_sabotage, make_move (the redirect
\* into a reselection and the moves that end the match included) and
\* request_rematch emits, in the handling of that action, exactly one
\* game_update, which carries the whole session as the action left it and
\* reaches both participants; and no step of any kind emits a game_update
\* that reaches one participant and not the other, or that carries anything
\* but the session as that step left it.  Each step therefore appends the
\* same snapshot to what either participant has received: delivered in order
\* on each connection, the two participants receive the same sequence of
\* snapshots, in the order the server applied the transitions.
C23_OneSnapshotPerAction ==
    [][/\ SameSnapshots
       /\ \A s \in Sockets, g \in GameIds \cup LobbyIds :
             /\ (JoinAccepted(s, g) /\ JoinGame(s, g)) => OneSnapshot(g)
             /\ (\E sp \in AnySpot : /\ SelectAccepted(s, g, sp[1], sp[2])
                                     /\ SelectSabotage(s, g, sp[1], sp[2]))
                   => OneSnapshot(g)
             /\ (MoveGated(s, g) /\ MakeMove(s, g, 0)) => OneSnapshot(g)
             /\ (\E c \in AnyColumn : MovePlaces(s, g, c) /\ MakeMove(s, g, c))
                   => OneSnapshot(g)
             /\ (RematchAccepted(s, g) /\ RequestRematch(s, g)) => OneSnapshot(g)]_vars

\* A redirected move has just been broadcast: the last step cleared a spot
\* into a reselection phase and its game_update holds that session.
C23_Witness ==
    /\ "g1" \in DOMAIN games
    /\ games["g1"].gamePhase \in {"sabotage_select_red", "sabotage_select_yellow"}
    /\ games["g1"].sabotageTriggeredBy = NULL
    /\ games["g1"].overlapJustTriggered = NULL
    /\ Len(sent) = 1
    /\ sent[1].event = "game_update"
    /\ sent[1].game = games["g1"]
    /\ sent[1].to = {"s1", "s2"}

\* Every piece of board `before` is on board `after`, with its color.
PiecesKept(before, after) ==
    \A r \in RowIdx, c \in ColIdx : before[r][c] # NULL => after[r][c] = before[r][c]

\* The step is the reset of a rematch: a finished match gives way to the
\* first selection over a board without a piece.
RematchReset(before, after) ==
    /\ before.gamePhase = "game_over"
    /\ after.gamePhase = "init_select_red"
    /\ \A r \in RowIdx, c \in ColIdx : after.board[r][c] = NULL

\* C24: within a match a cell that holds a piece never becomes empty and
\* never changes color: a step that does not delete the session either keeps
\* every piece where it is, or is the reset of a rematch, or starts a new
\* session under the identifier.
C24_CellsNeverRevert ==
    [][\A g \in GameIds :
          (g \in DOMAIN games /\ g \in DOMAIN games') =>
             \/ PiecesKept(games[g].board, games'[g].board)
             \/ RematchReset(games[g], games'[g])
             \/ Replaced(g)]_vars

\* A piece has been placed beyond the opening and a redirected move has then
\* cleared a spot: the board still holds every piece.
C24_Witness ==
    \E g \in DOMAIN games, p \in Colors :
       /\ Placed(games[g]) > LateMoves
       /\ games[g].gamePhase = SelectPhase(p)
       /\ Spot(games[g], p) = NoSpot
       /\ games[g].sabotageTriggeredBy = NULL
       /\ games[g].overlapJustTriggered = NULL

\* C25: in every reachable state currentPlayer is the color expected to act:
\* red in init_select_red and sabotage_select_red, yellow in
\* init_select_yellow and sabotage_select_yellow, red or yellow in playing,
\* and empty in waiting_for_opponent only.
C25_CurrentPlayerMatchesPhase ==
    \A g \in DOMAIN games :
       LET game == games[g]
       IN  /\ game.gamePhase \in {"init_select_red", "sabotage_select_red"}
                => game.currentPlayer = "red"
           /\ game.gamePhase \in {"init_select_yellow", "sabotage_select_yellow"}
                => game.currentPlayer = "yellow"
           /\ game.gamePhase = "playing" => game.currentPlayer \in Colors
           /\ game.currentPlayer = NULL => game.gamePhase = "waiting_for_opponent"

\* Late in the match a redirected move has opened a reselection, and the
\* turn is the reselecting color's.
C25_Witness ==
    \E g \in DOMAIN games, p \in Colors :
       /\ games[g].gamePhase = SelectPhase(p)
       /\ games[g].currentPlayer = p
       /\ games[g].sabotageTriggeredBy = NULL
       /\ Placed(games[g]) > LateMoves

\* C26: in every reachable state whose phase is playing at most one of the two
\* sabotage spots is empty.
C26_NotBothSpotsEmpty ==
    \A g \in DOMAIN games :
       games[g].gamePhase = "playing" =>
          ~(games[g].redSabotage = NoSpot /\ games[g].yellowSabotage = NoSpot)

\* The match is being played with exactly one spot on the board: one color
\* has reselected while the other's spot, cleared by a landing, was never
\* set again.
C26_Witness ==
    \E g \in DOMAIN games, p \in Colors :
       /\ games[g].gamePhase = "playing"
       /\ Spot(games[g], p) = NoSpot
       /\ Spot(games[g], Opp(p)) # NoSpot

\* Color p's selection window: p's turn in p's init_select or sabotage_select
\* phase, or p's turn in playing with p's pendingReselect flag set.
InWindow(game, p) ==
    /\ game.currentPlayer = p
    /\ \/ game.gamePhase \in {"init_select_" \o p, "sabotage_select_" \o p}
       \/ game.gamePhase = "playing" /\ game.pendingReselect[p]

\* C27: a color's sabotage spot is set to a coordinate only by that color's
\* own accepted select_sabotage, made in that color's selection window; any
\* other step leaves the spot as it is or clears it, and an accepted
\* select_sabotage never changes the spot of the selector's opponent.
C27_SpotSetOnlyByOwner ==
    [][\A g \in GameIds :
          (g \in DOMAIN games /\ g \in DOMAIN games') =>
             /\ \A p \in Colors :
                   LET new == Spot(games'[g], p)
                   IN  (new # NoSpot /\ new # Spot(games[g], p)) =>
                          /\ InWindow(games[g], p)
                          /\ \E s \in Sockets :
                                /\ games[g].players[s] = p
                                /\ SelectSabotage(s, g, new[1], new[2])
             /\ \A s \in Sockets :
                   LET q == games[g].players[s]
                       rc == IF q = NULL THEN NoSpot ELSE Spot(games'[g], q)
                   IN  (/\ rc # NoSpot
                        /\ SelectAccepted(s, g, rc[1], rc[2])
                        /\ SelectSabotage(s, g, rc[1], rc[2])) =>
                          Spot(games'[g], Opp(q)) = Spot(games[g], Opp(q))]_vars

\* A color has reselected: its spot is a cell other than the one the late
\* match began with, while the opponent's spot is still the one it began with.
C27_Witness ==
    \E g \in DOMAIN games, p \in Colors :
       /\ Spot(games[g], p) # NoSpot
       /\ Spot(games[g], p) # Spot(LateGame, p)
       /\ Spot(games[g], Opp(p)) = Spot(LateGame, Opp(p))
       /\ games[g].players = LateGame.players

\* The participant-to-color map of a session agrees with its per-color
\* record: a socket maps to red exactly when it is the recorded red, to
\* yellow exactly when it is the recorded yellow, at most two sockets are
\* mapped, and red and yellow are not one socket.
MapConsistent(game) ==
    /\ \A s \in Sockets :
          /\ game.players[s] = "red" <=> game.playerSockets.red = s
          /\ game.players[s] = "yellow" <=> game.playerSockets.yellow = s
    /\ Cardinality({s \in Sockets : game.players[s] # NULL}) <= 2
    /\ game.playerSockets.red # NULL => game.playerSockets.red # game.playerSockets.yellow

\* C28: in every reachable session at most two participants are mapped to
\* colors, red and yellow are never the same participant, and the
\* participant-to-color map agrees with the per-color record; a join_game
\* sent to a session that already has two participants changes neither.
\* (The registry is empty at first, so the sessions steps leave behind are
\* all the reachable ones.)
C28_ParticipantMap ==
    [][/\ \A g \in DOMAIN games' : MapConsistent(games'[g])
       /\ \A s \in Sockets, g \in LobbyIds :
             (/\ g \in DOMAIN games
              /\ games[g].playerSockets.yellow # NULL
              /\ JoinGame(s, g)) =>
                /\ g \in DOMAIN games'
                /\ games'[g].players = games[g].players
                /\ games'[g].playerSockets = games[g].playerSockets]_vars

\* A socket that is no participant of a session with two participants has
\* just been refused by join_game.
C28_Witness ==
    \E g \in DOMAIN games, s \in Sockets :
       /\ games[g].playerSockets.red # NULL
       /\ games[g].playerSockets.yellow # NULL
       /\ games[g].players[s] = NULL
       /\ sent = << Err(s, "join_error") >>

\* No empty cell lies below a piece.
NoFloating(board) ==
    \A c \in ColIdx, r \in RowIdx :
       (r + 1 \in RowIdx /\ board[r][c] # NULL) => board[r + 1][c] # NULL

BoardFull(board) == \A r \in RowIdx, c \in ColIdx : board[r][c] # NULL

ColumnFull(board, c) == \A r \in RowIdx : board[r][c] # NULL

\* C29: gravity.  A make_move that passes the turn and phase validation with
\* a column of the board puts one piece on the lowest empty cell of the
\* column when it has one, and is refused with a game_error and the session
\* unchanged when it has none; in every reachable state no empty cell lies
\* below a piece, and checkDraw holds exactly of the full board.
C29_Gravity ==
    [][\A g \in GameIds :
          (g \in DOMAIN games /\ g \in DOMAIN games') =>
             /\ NoFloating(games[g].board)
             /\ NoFloating(games'[g].board)
             /\ checkDraw(games'[g].board) <=> BoardFull(games'[g].board)
             /\ \A s \in Sockets :
                   (/\ games[g].gamePhase = "playing"
                    /\ games[g].players[s] = games[g].currentPlayer
                    /\ ~MoveGated(s, g)) =>
                      \A c \in AnyColumn \cap ColIdx :
                         MakeMove(s, g, c) =>
                            IF ColumnFull(games[g].board, c)
                            THEN /\ games' = games
                                 /\ sent' = << Err(s, "game_error") >>
                            ELSE \E r \in RowIdx :
                                    /\ Lands(games[g].board, r, c)
                                    /\ OnePiecePlaced(games[g].board, games'[g].board, r, c)]_vars

\* A column that had an empty cell when the late match began has been
\* filled to the top, and the board is not full.
C29_Witness ==
    \E g \in DOMAIN games, c \in ColIdx :
       /\ ColumnFull(games[g].board, c)
       /\ ~ColumnFull(LateGame.board, c)
       /\ ~checkDraw(games[g].board)

\* C30: for every board and every cell (row, col) that holds a color C and
\* lies on a run of four or more cells of C along its row, its column or one
\* of its diagonals, checkWin(board, C, row, col) returns true and
\* checkWin(board, other color, row, col) returns false; and the cells
\* checkWin reads are cells of the 6x7 board.
C30_CheckWin ==
    \A i \in DOMAIN sent :
       sent[i].event = "checkWin" =>
          LET board == games[sent[i].gameId].board
              row == sent[i].row
              col == sent[i].col
              C == board[row][col]
          IN  (C # NULL /\ FourThrough(board, C, row, col)) =>
                 /\ sent[i].result[C]
                 /\ ~sent[i].result[Opp(C)]
                 /\ ScannedCells(row, col) \subseteq (0 .. 5) \X (0 .. 6)

\* C31: for every board, checkDraw(board) is true exactly when each of the 7
\* cells of row 0 holds a piece, whatever rows 1 to 5 hold.
C31_CheckDraw ==
    \A i \in DOMAIN sent :
       sent[i].event = "checkDraw" =>
          LET board == games[sent[i].gameId].board
          IN  sent[i].result <=>
                 (Cardinality({c \in 0 .. 6 : board[0][c] \in Colors}) = 7)

\* checkDraw has answered true for a board whose top row is full over an
\* empty body.
C31_Witness ==
    /\ Len(sent) = 1
    /\ sent[1].event = "checkDraw"
    /\ sent[1].result
    /\ \A r \in 1 .. 5, c \in 0 .. 6 : games[sent[1].gameId].board[r][c] = NULL

\* The sender is no participant of the live session g.
Stranger(s, g) == g \in DOMAIN games /\ games[g].players[s] = NULL

\* C32 as stated: a select_sabotage whose sender cannot be identified as a
\* participant of the addressed session is silently ignored: the session is
\* unchanged and no message of any kind is sent to anyone.
C32_StrangerSelectSilent ==
    [][\A s \in Sockets, g \in GameIds :
          Stranger(s, g) =>
             \A rc \in AnySpot :
                SelectSabotage(s, g, rc[1], rc[2]) =>
                   games' = games /\ sent' = << >>]_vars

\* C32 amended: a select_sabotage whose sender cannot be identified as a
\* participant of the addressed session is rejected: the session is
\* unchanged, no game_update is sent, and the sender alone is sent one
\* game_error.
C32_StrangerSelectRejected ==
    [][\A s \in Sockets, g \in GameIds :
          Stranger(s, g) =>
             \A rc \in AnySpot :
                SelectSabotage(s, g, rc[1], rc[2]) =>
                   /\ games' = games
                   /\ rooms' = rooms
                   /\ Len(sent') = 1
                   /\ sent'[1].event = "game_error"
                   /\ sent'[1].to = {s}]_vars

\* A socket that is no participant of the session being played has just
\* been answered with a game_error.
C32_Witness ==
    \E g \in DOMAIN games, s \in Sockets :
       /\ games[g].players[s] = NULL
       /\ games[g].playerSockets.yellow # NULL
       /\ Len(sent) = 1
       /\ sent[1].event = "game_error"
       /\ sent[1].to = {s}

\* The step takes the live session g into phase ph from another phase; a
\* session that create_game puts under the identifier is another instance.
Enters(g, ph) ==
    /\ g \in DOMAIN games
    /\ g \in DOMAIN games'
    /\ ~Replaced(g)
    /\ games[g].gamePhase # ph
    /\ games'[g].gamePhase = ph

\* C33 as stated: over the lifetime of a session instance, rematches
\* included, each of waiting_for_opponent, init_select_red and
\* init_select_yellow is entered exactly once: a live session never goes
\* back to waiting_for_opponent, enters init_select_red from
\* waiting_for_opponent only and init_select_yellow from init_select_red
\* only.
C33_InitPhasesOncePerSession ==
    [][\A g \in GameIds :
          /\ ~Enters(g, "waiting_for_opponent")
          /\ Enters(g, "init_select_red") =>
                games[g].gamePhase = "waiting_for_opponent"
          /\ Enters(g, "init_select_yellow") =>
                games[g].gamePhase = "init_select_red"]_vars

\* C33 amended: a live session never goes back to waiting_for_opponent, and
\* within a match init_select_red and init_select_yellow are entered at most
\* once each: init_select_red is entered from waiting_for_opponent, by the
\* join, or from game_over, by the reset of a rematch, which starts the next
\* match, and init_select_yellow is entered from init_select_red only.
C33_InitPhasesOncePerMatch ==
    [][\A g \in GameIds :
          /\ ~Enters(g, "waiting_for_opponent")
          /\ Enters(g, "init_select_red") =>
                \/ games[g].gamePhase = "waiting_for_opponent"
                \/ RematchReset(games[g], games'[g])
          /\ Enters(g, "init_select_yellow") =>
                games[g].gamePhase = "init_select_red"]_vars

\* A rematch has been accepted and its Red has selected: the session, its
\* colors swapped, is in init_select_yellow for the second time.
C33_Witness ==
    \E g \in DOMAIN games :
       /\ games[g].gamePhase = "init_select_yellow"
       /\ games[g].playerSockets.red = LateGame.playerSockets.yellow
       /\ games[g].playerSockets.yellow = LateGame.playerSockets.red
       /\ games[g].redSabotage # NoSpot

\* C34: within a match the placements alternate, Red first: an accepted
\* placing make_move is Red's when an even number of pieces is on the board
\* and Yellow's when an odd number is, whatever sabotage triggers,
\* reselections and redirected moves came in between.
C34_PlacementsAlternate ==
    [][\A s \in Sockets, g \in GameIds :
          (/\ g \in DOMAIN games
           /\ games[g].gamePhase = "playing"
           /\ games[g].players[s] = games[g].currentPlayer
           /\ ~MoveGated(s, g)) =>
             \A c \in AnyColumn :
                (MovePlaces(s, g, c) /\ MakeMove(s, g, c)) =>
                   (games[g].players[s] = "red" <=> Placed(games[g]) % 2 = 0)]_vars

\* Board holds four cells in a line, all of one color.
HasFour(board) ==
    \E p \in Colors, rc \in Cells :
       \E d \in Directions :
          \A k \in 0 .. 3 :
             LET i == rc[1] + k * d[1]
                 j == rc[2] + k * d[2]
             IN  i \in RowIdx /\ j \in ColIdx /\ board[i][j] = p

\* C35: in every reachable state whose phase is playing, sabotage_select_red
\* or sabotage_select_yellow, the board holds no run of four or more cells
\* of one color in a row, a column or a diagonal, winner is empty and isDraw
\* is false.
C35_NoRunWhilePlaying ==
    \A g \in DOMAIN games :
       games[g].gamePhase \in {"playing", "sabotage_select_red", "sabotage_select_yellow"} =>
          /\ ~HasFour(games[g].board)
          /\ games[g].winner = NULL
          /\ ~games[g].isDraw

\* The server accepts some select_sabotage or some make_move of socket s in
\* session g.
CanAct(s, g) ==
    \/ MoveGated(s, g)
    \/ \E c \in ColIdx : MovePlaces(s, g, c)
    \/ SelectAccepted(s, g, 0, 0)

\* C36: no deadlock in a live match: in every reachable state of a session
\* with two participants whose phase is playing or a selection phase, the
\* player named by currentPlayer has an action that the server accepts; in
\* particular the phase is never playing while every column is full.
C36_NoDeadlock ==
    \A g \in DOMAIN games :
       (/\ games[g].playerSockets.yellow # NULL
        /\ games[g].gamePhase \notin {"waiting_for_opponent", "game_over"}) =>
          /\ games[g].currentPlayer \in Colors
          /\ CanAct(games[g].playerSockets[games[g].currentPlayer], g)
          /\ games[g].gamePhase = "playing" => ~BoardFull(games[g].board)

\* C37: in every reachable state whose phase is playing both sabotage spots
\* are set.
C37_BothSpotsSetWhilePlaying ==
    \A g \in DOMAIN games :
       games[g].gamePhase = "playing" =>
          games[g].redSabotage # NoSpot /\ games[g].yellowSabotage # NoSpot

\* C38: after a participant disconnects, no session left in the registry has
\* that participant as Red or as Yellow, even when the participant had
\* created or joined more than one session.
C38_DisconnectRemovesAll ==
    [][\A s \in Sockets :
          Disconnect(s) =>
             \A g \in DOMAIN games' :
                /\ games'[g].playerSockets.red # s
                /\ games'[g].playerSockets.yellow # s]_vars

\* The pendingReselect flags that are set.
FlagsSet(game) == Cardinality({p \in Colors : game.pendingReselect[p]})

\* How far a phase is from playing, in accepted selections.
PhaseDistance(game) ==
    IF game.gamePhase = "init_select_red" THEN 2
    ELSE IF game.gamePhase = "init_select_yellow" THEN 1
    ELSE IF game.gamePhase \in {"sabotage_select_red", "sabotage_select_yellow"}
    THEN (IF game.gamePhase = SelectPhase(game.overlapJustTriggered) THEN 2 ELSE 1)
    ELSE 0

\* A measure that every accepted action other than a placement lowers.
Measure(game) == 3 * FlagsSet(game) + PhaseDistance(game)

\* C39: a match makes progress to its end.  With no leave, a placement adds
\* one piece to a board of 42 cells; every accepted select_sabotage and
\* every redirected make_move lowers a measure that is never negative, so
\* only a bounded number of them fits between two placements; and when the
\* participants keep submitting accepted actions the match reaches
\* game_over.
C39_Progress ==
    /\ [][\A g \in GameIds :
             (g \in DOMAIN games /\ g \in DOMAIN games') =>
                IF Placed(games'[g]) # Placed(games[g])
                THEN /\ Placed(games'[g]) = Placed(games[g]) + 1
                     /\ Placed(games'[g]) <= ROWS * COLS
                ELSE games'[g] # games[g] =>
                        /\ Measure(games'[g]) < Measure(games[g])
                        /\ Measure(games'[g]) >= 0]_vars
    /\ <>(\E g \in DOMAIN games : games[g].gamePhase = "game_over")

\* The match has ended in a draw: all 42 pieces were placed.
C39_Witness ==
    \E g \in DOMAIN games :
       /\ games[g].gamePhase = "game_over"
       /\ games[g].isDraw
       /\ Placed(games[g]) = ROWS * COLS

\* The messages of a sequence that are delivered to socket s.
DeliveredTo(msgs, s) == SelectSeq(msgs, LAMBDA m : s \in m.to)

\* What the server emits when it accepts the selection of (row, col) by s.
SelectReply(s, g, row, col) ==
    << Update(Room(g), g, SelectedGame(games[g], games[g].players[s], row, col)) >>

\* C40: a sabotage spot stays hidden from the opponent.  When the server
\* accepts a selection, the messages delivered to the selecting player's
\* opponent are the ones that would have been delivered had the player
\* selected any other cell of the board.
C40_SpotHidden ==
    [][\A s \in Sockets, g \in GameIds, rc \in SpotInputsLate :
          AcceptedSelect(s, g, rc[1], rc[2]) =>
             \A other \in SpotInputsLate :
                ValidCoords(other[1], other[2]) =>
                   DeliveredTo(sent', OpponentSocket(games[g], s))
                      = DeliveredTo(SelectReply(s, g, other[1], other[2]),
                                    OpponentSocket(games[g], s))]_vars
====
